---------------------------- MODULE Spec2Model ----------------------------
(***************************************************************************)
(* A model of the kolga compiler front end: the recursive-descent parser   *)
(* of src/kolgac/parser.rs coupled to its scoped symbol table, the driver  *)
(* of src/src/kolga.rs, and the ValueTable discipline of the code          *)
(* generator of src/kolgac_llvm/src/llvm.rs.                               *)
(*                                                                         *)
(* The source file given to the lexer is the variable toks.  One action    *)
(* models one iteration of the loop of Parser::parse (a whole call of      *)
(* decl()), and one action models each stage of main().  The recursive     *)
(* functions of the parser are RECURSIVE operators that thread the parser  *)
(* state (current token position, symbol table, error vector) and return   *)
(* Result values: "ok", "err" (Rust's Err, propagated by `?`) or "panic"   *)
(* (an unwrap() of None, which unwinds the whole process).                 *)
(***************************************************************************)
EXTENDS Integers, Sequences, FiniteSets, TLC

VARIABLES
    toks,        \* the token stream the lexer delivers for the source file
    pc,          \* position of main(): which stage runs next
    parser,      \* Parser fields + SymbolTable: pos, chain, finalized, errors (+ history)
    stmts,       \* the local `stmts` of Parser::parse
    decls,       \* history: one record per call of decl() made by parse()
    parse_result,\* ParserResult handed to main
    ty_result,   \* number of errors TyManager::check returned
    gen,         \* CodeGenerator fields: valtab, classtab, errors (+ history)
    stages,      \* history: the stages main() has run, in order
    printed,     \* diagnostics emitted by main()
    emitted,     \* diagnostics emitted by Parser::parse (e.emit())
    ir_dumped,   \* dump_ir was called
    exit_status  \* -1 while running, else the status the process ended with

vars == <<toks, pc, parser, stmts, decls, parse_result, ty_result, gen,
          stages, printed, emitted, ir_dumped, exit_status>>

-----------------------------------------------------------------------------
(* Bounds of the model and constants of the program *)

\* longest arbitrary token stream drawn from Alphabet
MaxLen == 3
\* most fragments concatenated into one source file
MaxDecls == 2
\* most parameters of the generated function declarations and calls
MaxParams == 66
\* most errors the type checker reports
MaxTyErrs == 1
MaxUb == 2
\* most elif arms of the generated if statements
MaxElifs == 2
\* a `while` over the tokens is iterated at most 2^LoopDepth times, which is
\* more than the number of tokens of every source file of the model
LoopDepth == 7

FN_PARAM_MAX_LEN == 64

Range(f) == {f[i] : i \in DOMAIN f}

RECURSIVE Flatten(_)
Flatten(ss) == IF ss = <<>> THEN <<>> ELSE Head(ss) \o Flatten(Tail(ss))


-----------------------------------------------------------------------------
(* Tokens *)

\* a token of the source file; the lexer adds its position (line, pos)
T(ty) == [ty |-> ty, name |-> ""]
Ident(n) == [ty |-> "Ident", name |-> n]
Val(v) == [ty |-> "Val", name |-> v]
\* Option<Token> None
NoTkn == [ty |-> "NoTkn", name |-> "", at |-> 0]

\* Token::is_ty of the parser's token module (Void is a type keyword there:
\* var_decl tests for it inside the is_ty branch)
is_ty(tkn) == tkn.ty \in {"Num", "String", "Bool", "Void"}

get_name(tkn) == IF tkn.ty = "Ident" THEN tkn.name ELSE ""

\* TknTy::to_string, as far as diagnostics carry it
to_string(tkn) == IF tkn.ty = "Ident" THEN tkn.name ELSE tkn.ty

-----------------------------------------------------------------------------
(* Type records *)

TyName(t, c) == [t |-> t, cls |-> c]
NoTy == TyName("None", "")

\* TyRec::new_from_tkn: the type a token denotes
new_from_tkn(tkn) ==
    [ty |-> CASE tkn.ty = "Num" -> TyName("Num", "")
              [] tkn.ty = "String" -> TyName("String", "")
              [] tkn.ty = "Bool" -> TyName("Bool", "")
              [] tkn.ty = "Void" -> TyName("Void", "")
              [] tkn.ty = "Val" -> TyName("Num", "")
              [] tkn.ty = "Str" -> TyName("String", "")
              [] tkn.ty \in {"True", "False"} -> TyName("Bool", "")
              [] tkn.ty = "Ident" -> TyName("Class", tkn.name)
              [] OTHER -> NoTy,
     tkn |-> tkn]

\* TyRec::empty(&op)
empty_ty(tkn) == [ty |-> NoTy, tkn |-> tkn]

-----------------------------------------------------------------------------
(* AST (src/kolgac/ast.rs).  Option<Ast> None is NoAst. *)

NoAst == [k |-> "None"]
Prog(ss) == [k |-> "Prog", stmts |-> ss]
BlckStmt(ss, sc) == [k |-> "BlckStmt", stmts |-> ss, sc |-> sc]
IfStmt(c, b, elifs, el) ==
    [k |-> "IfStmt", cond_expr |-> c, if_stmts |-> b, elif_exprs |-> elifs, el_stmts |-> el]
ElifStmt(c, b) == [k |-> "ElifStmt", cond_expr |-> c, body |-> b]
WhileStmt(c, b) == [k |-> "WhileStmt", cond_expr |-> c, body |-> b]
ForStmt(d, c, st, b) ==
    [k |-> "ForStmt", for_var_decl |-> d, for_cond_expr |-> c, for_step_expr |-> st, body |-> b]
RetStmt(e) == [k |-> "RetStmt", ret_expr |-> e]
ExprStmt(e) == [k |-> "ExprStmt", expr |-> e]
VarDeclExpr(ty, id, imm, g) ==
    [k |-> "VarDeclExpr", ty_rec |-> ty, ident_tkn |-> id, is_imm |-> imm, is_global |-> g]
VarAssignExpr(ty, id, imm, g, v) ==
    [k |-> "VarAssignExpr", ty_rec |-> ty, ident_tkn |-> id, is_imm |-> imm,
     is_global |-> g, value |-> v]
LogicalExpr(op, l, r) ==
    [k |-> "LogicalExpr", ty_rec |-> empty_ty(op), op_tkn |-> op, lhs |-> l, rhs |-> r]
BinaryExpr(op, l, r) ==
    [k |-> "BinaryExpr", ty_rec |-> empty_ty(op), op_tkn |-> op, lhs |-> l, rhs |-> r]
UnaryExpr(op, r) == [k |-> "UnaryExpr", ty_rec |-> empty_ty(op), op_tkn |-> op, rhs |-> r]
FnDecl(id, ps, ret, body, sc) ==
    [k |-> "FnDecl", ident_tkn |-> id, fn_params |-> ps, ret_ty |-> ret, fn_body |-> body,
     sc |-> sc]
FnCall(f, args) == [k |-> "FnCall", fn_tkn |-> f, fn_args |-> args]
ClassDecl(id, ms, ps, pm, sc) ==
    [k |-> "ClassDecl", ident_tkn |-> id, methods |-> ms, props |-> ps, prop_pos |-> pm,
     sc |-> sc]
ClassPropAccess(id, pn, idx, owner) ==
    [k |-> "ClassPropAccess", ident_tkn |-> id, prop_name |-> pn, idx |-> idx,
     owner_class |-> owner]
ClassPropSet(id, pn, idx, owner, v) ==
    [k |-> "ClassPropSet", ident_tkn |-> id, prop_name |-> pn, idx |-> idx,
     owner_class |-> owner, assign_val |-> v]
ClassFnCall(ct, cn, f, args, sc) ==
    [k |-> "ClassFnCall", class_tkn |-> ct, class_name |-> cn, fn_tkn |-> f,
     fn_args |-> args, sc |-> sc]
PrimaryExpr(ty) == [k |-> "PrimaryExpr", ty_rec |-> ty]

\* Ast::extract_params
extract_params(ast) == IF ast.k = "FnCall" THEN ast.fn_args ELSE <<>>

-----------------------------------------------------------------------------
(* Symbols and the symbol table.  A scope is a function name -> Sym;       *)
(* chain is the active stack (chain[1] is the global scope), finalized the *)
(* archive of closed scopes, indexed by scope id.                          *)

NoParams == [some |-> FALSE, v |-> <<>>]
SomeParams(ps) == [some |-> TRUE, v |-> ps]

Sym(sym_ty, imm, ty_rec, ident_tkn, assign_val, fn_params) ==
    [sym_ty |-> sym_ty, imm |-> imm, ty_rec |-> ty_rec, ident_tkn |-> ident_tkn,
     assign_val |-> assign_val, fn_params |-> fn_params]
NoSym == [sym_ty |-> "None"]

EmptyScope == [n \in {} |-> NoSym]

\* history of the table's calls: scope instances get the ids 0 (global), 1, 2, ...
\* in the order of their init_sc
Ev(op, name, uid) == [op |-> op, name |-> name, uid |-> uid]

init_sc(s) ==
    [s EXCEPT !.chain = Append(@, EmptyScope),
              !.n_init = @ + 1,
              !.uids = Append(@, s.n_init + 1),
              !.log = Append(@, Ev("init_sc", "", s.n_init + 1))]

\* finalize_sc: pop the top scope and archive it under the next scope id
finalize_sc(s) ==
    LET top == Len(s.chain) IN
    [s EXCEPT !.chain = SubSeq(@, 1, top - 1),
              !.finalized = Append(@, s.chain[top]),
              !.uids = SubSeq(@, 1, top - 1),
              !.log = Append(@, Ev("finalize_sc", "", s.uids[top]))]

finalized_level(s) == Len(s.finalized)

\* history: the functions on the stack whose name is stored again
RECURSIVE mark_rebound(_, _)
mark_rebound(fns, name) ==
    IF fns = <<>> THEN <<>>
    ELSE <<IF Head(fns).name = name THEN [Head(fns) EXCEPT !.rebound = TRUE] ELSE Head(fns)>>
         \o mark_rebound(Tail(fns), name)

\* store: insert or overwrite in the current top scope
store(s, name, sym) ==
    LET top == Len(s.chain)
        sc == s.chain[top]
    IN [s EXCEPT !.chain[top] = (name :> sym) @@ sc,
                 !.log = Append(@, Ev("store", name, s.uids[top])),
                 !.fns = mark_rebound(@, name)]

RECURSIVE lookup(_, _, _)
lookup(chain, lvl, name) ==
    IF lvl = 0 THEN NoSym
    ELSE IF name \in DOMAIN chain[lvl] THEN chain[lvl][name]
    ELSE lookup(chain, lvl - 1, name)

\* retrieve: nearest binding, searching from the top of the stack down
retrieve(s, name) == lookup(s.chain, Len(s.chain), name)

is_none(sym) == sym.sym_ty = "None"

\* is_global: only scope 0 is active
is_global(s) == Len(s.chain) = 1

\* finalize_global_sc: seals scope 0; the active stack is left as it is
finalize_global_sc(s) ==
    [s EXCEPT !.global_final = TRUE,
              !.log = Append(@, Ev("finalize_global_sc", "", 0))]

\* history: the functions whose bodies are being parsed, innermost last; rebound
\* is set once the function's name is stored again while its body is parsed
FnEntry(name, at, params) == [name |-> name, at |-> at, params |-> params, rebound |-> FALSE]

\* history: a resolution of an identifier by primary_expr or fnparams_expr: the
\* kind and the parameter list of the symbol found, and the error raised
LookupEv(name, at, sym, params, err, fns) ==
    [name |-> name, at |-> at, sym_ty |-> sym.sym_ty, params |-> params, err |-> err,
     fns |-> fns]

looked_up(s, tkn, sym, params, err) ==
    [s EXCEPT !.lookups = Append(@, LookupEv(tkn.name, tkn.at, sym, params, err, s.fns))]

\* Parser::new over SymbolTable::new: the first token is current, the table holds
\* the empty global scope
NewParser ==
    [pos |-> 1, chain |-> <<EmptyScope>>, finalized |-> <<>>, errors |-> <<>>,
     n_init |-> 0, uids |-> <<0>>, log |-> <<>>, global_final |-> FALSE,
     asg |-> <<>>, calls |-> <<>>, lookups |-> <<>>, fns |-> <<>>, vds |-> <<>>,
     prims |-> <<>>, fors |-> <<>>, arms |-> <<>>, bare |-> <<>>, mcalls |-> <<>>]

-----------------------------------------------------------------------------
(* Lexer and the parser's token handling *)

Eof == T("Eof")

WithPos(tkn, at) == [ty |-> tkn.ty, name |-> tkn.name, at |-> at]

\* Parser.currtkn: the token last returned by Lexer::lex (Eof once the file is read)
currtkn(s) == IF s.pos <= Len(toks) THEN WithPos(toks[s.pos], s.pos)
              ELSE WithPos(Eof, Len(toks) + 1)

\* Lexer::peek_tkn: the token after currtkn, not consumed
peek_tkn(s) == IF s.pos + 1 <= Len(toks) THEN WithPos(toks[s.pos + 1], s.pos + 1)
               ELSE WithPos(Eof, Len(toks) + 1)

\* Parser::consume
consume(s) == [s EXCEPT !.pos = IF @ <= Len(toks) THEN @ + 1 ELSE @]

(* Results of the parsing functions *)
NoErr == [ty |-> "None", at |-> 0, arg |-> ""]
Ok(s, ast) == [k |-> "ok", s |-> s, ast |-> ast, err |-> NoErr]
Err(s, e) == [k |-> "err", s |-> s, ast |-> NoAst, err |-> e]
Panic(s) == [k |-> "panic", s |-> s, ast |-> NoAst, err |-> NoErr]

ParseErr(at, ty, arg) == [ty |-> ty, at |-> at, arg |-> arg]

\* Parser::error_w_pos: push the diagnostic onto the parser's errors
error_w_pos(s, at, ty, arg) ==
    [s EXCEPT !.errors = Append(@, ParseErr(at, ty, arg)),
              !.log = Append(@, Ev("error", ty, s.uids[Len(s.uids)]))]

\* Parser::error: the diagnostic is positioned at the current token
error(s, ty, arg) == error_w_pos(s, s.pos, ty, arg)

\* `return Err(self.error(ty))`
Fail(s, ty, arg) == Err(error(s, ty, arg), ParseErr(s.pos, ty, arg))

\* the diagnostic expect() builds on a mismatch
TknMismatch(s, tknty) == ParseErr(s.pos, "TknMismatch", tknty)

\* Parser::expect: on a mismatch the diagnostic is returned, not pushed
expect(s, tknty) ==
    IF currtkn(s).ty = tknty THEN Ok(consume(s), NoAst)
    ELSE Err(s, TknMismatch(s, tknty))

\* Parser::match_ident_tkn: the returned Option<Token> is the ast field's tkn
match_ident_tkn(s) ==
    IF currtkn(s).ty = "Ident" THEN [s |-> consume(s), tkn |-> currtkn(s)]
    ELSE [s |-> error(s, "InvalidIdent", to_string(currtkn(s))), tkn |-> NoTkn]

-----------------------------------------------------------------------------
(* Sequencing inside a parsing function *)

\* `let r = f()?; ...`: an Err (or a panic) of f leaves the function at once
Try(r, K(_)) == IF r.k # "ok" THEN r ELSE K(r)

\* `let v = e; ...`
With(v, K(_)) == K(v)

-----------------------------------------------------------------------------
(* Expressions *)

RECURSIVE expr(_), assign_expr(_), bin_expr(_, _), bin_rest(_, _, _), unary_expr(_),
          fncall_expr(_), class_expr(_, _), fnparams_expr(_, _, _), call_args(_, _), call_args_iter(_, _),
          primary_expr(_)

\* the operator tokens of the binary levels, lowest precedence first:
\* logicor, logicand, eq, cmp, addsub, muldiv
bin_ops(lvl) ==
    CASE lvl = 1 -> {"PipePipe", "Or"}
      [] lvl = 2 -> {"AmpAmp", "And"}
      [] lvl = 3 -> {"BangEq", "EqEq"}
      [] lvl = 4 -> {"Lt", "LtEq", "Gt", "GtEq"}
      [] lvl = 5 -> {"Plus", "Minus"}
      [] lvl = 6 -> {"Star", "Slash"}

bin_node(lvl, op, l, r) == IF lvl <= 2 THEN LogicalExpr(op, l, r) ELSE BinaryExpr(op, l, r)

\* the `loop` of a binary level: fold operands left-associatively
bin_rest(s, ast, lvl) ==
    IF currtkn(s).ty \in bin_ops(lvl)
    THEN Try(bin_expr(consume(s), lvl + 1), LAMBDA r :
         bin_rest(r.s, bin_node(lvl, currtkn(s), ast, r.ast), lvl))
    ELSE Ok(s, ast)

\* one binary level: an operand of the next level, then the loop
bin_expr(s, lvl) ==
    IF lvl = 7 THEN unary_expr(s)
    ELSE Try(bin_expr(s, lvl + 1), LAMBDA r : bin_rest(r.s, r.ast, lvl))

logicor_expr(s) == bin_expr(s, 1)
logicand_expr(s) == bin_expr(s, 2)
eq_expr(s) == bin_expr(s, 3)
cmp_expr(s) == bin_expr(s, 4)
addsub_expr(s) == bin_expr(s, 5)
muldiv_expr(s) == bin_expr(s, 6)

expr(s) == assign_expr(s)

imm_rejected_mut(sym) == FALSE

\* the immutability test of assign_expr
imm_rejected(sym) == sym.imm

\* history of assign_expr: the name assigned, the imm flag of its nearest
\* binding, the `=` token, the token after the right-hand side, and the name
\* token of the declaration the name resolved to
AsgEv(name, imm, at, end, decl_at) ==
    [name |-> name, imm |-> imm, at |-> at, end |-> end, decl_at |-> decl_at]

\* assign_expr, the arm of an identifier on the left: s is the parser after the
\* right-hand side rhs, op the `=` token
assign_var(s, name, op, rhs) ==
    With(retrieve(s, name), LAMBDA sym :
    IF is_none(sym) THEN Fail(s, "UndeclaredSym", name)
    ELSE With([s EXCEPT !.asg = Append(@, AsgEv(name, sym.imm, op.at, s.pos,
                                                   sym.ident_tkn.at))], LAMBDA s1 :
         IF imm_rejected(sym) THEN Fail(s1, "InvalidImmAssign", name)
         ELSE Ok(s1, VarAssignExpr(sym.ty_rec, sym.ident_tkn, sym.imm, is_global(s1), rhs))))

assign_expr(s0) ==
    Try(logicor_expr(s0), LAMBDA l :
    IF currtkn(l.s).ty # "Eq" THEN l
    ELSE
    With(currtkn(l.s), LAMBDA op :
    Try(assign_expr(consume(l.s)), LAMBDA r :
    IF l.ast.k = "PrimaryExpr"
    THEN IF l.ast.ty_rec.tkn.ty = "Ident"
         THEN assign_var(r.s, l.ast.ty_rec.tkn.name, op, r.ast)
         ELSE Fail(r.s, "InvalidAssign", to_string(l.ast.ty_rec.tkn))
    ELSE IF l.ast.k = "ClassPropAccess"
    THEN Ok(r.s, ClassPropSet(l.ast.ident_tkn, l.ast.prop_name, l.ast.idx,
                              l.ast.owner_class, r.ast))
    ELSE Err(error_w_pos(r.s, op.at, "InvalidAssign", to_string(op)),
             ParseErr(op.at, "InvalidAssign", to_string(op))))))

unary_expr(s) ==
    IF currtkn(s).ty \in {"Bang", "Minus"}
    THEN Try(unary_expr(consume(s)), LAMBDA r : Ok(r.s, UnaryExpr(currtkn(s), r.ast)))
    ELSE fncall_expr(s)

fncall_expr(s) ==
    Try(primary_expr(s), LAMBDA r :
    With(IF r.ast.k = "PrimaryExpr" THEN r.ast.ty_rec.tkn ELSE NoTkn, LAMBDA ident_tkn :
    CASE currtkn(r.s).ty = "LeftParen" -> fnparams_expr(r.s, ident_tkn, NoSym)
      [] currtkn(r.s).ty = "Period" -> class_expr(r.s, ident_tkn)
      [] OTHER -> r))

\* the prop_pos HashMap of a class: a function name -> index
map_get(m, key) == IF key \in DOMAIN m THEN m[key] ELSE -1

\* the parameter list of the method a class declaration has under a name
\* (the last one of that name), NoParams if it has none
method_params(class_decl_ast, name) ==
    IF class_decl_ast.k # "ClassDecl" THEN NoParams
    ELSE LET ms == class_decl_ast.methods
             hit == {i \in DOMAIN ms : ms[i].k = "FnDecl" /\ get_name(ms[i].ident_tkn) = name}
         IN IF hit = {} THEN NoParams
            ELSE SomeParams(ms[CHOOSE i \in hit : \A j \in hit : j <= i].fn_params)

\* history of class_expr: a method call, the parameters the class of the
\* receiver declares for the method, the arguments parsed, the errors
\* fnparams_expr recorded, and whether the name of the method is a visible symbol
MCallEv(s, r, name_tkn, cd) ==
    [name |-> get_name(name_tkn), at |-> name_tkn.at,
     method |-> method_params(cd, get_name(name_tkn)),
     got |-> IF r.k = "ok" THEN Len(extract_params(r.ast)) ELSE -1,
     k |-> r.k, errs |-> SubSeq(r.s.errors, Len(s.errors) + 1, Len(r.s.errors)),
     visible |-> ~is_none(retrieve(s, get_name(name_tkn)))]

\* class_expr, a method call `c.name(...)` on the class symbol class_sym
class_method_call(s, class_tkn, name_tkn, class_sym) ==
    With(class_sym.assign_val, LAMBDA cd :
    With(cd.k = "ClassDecl", LAMBDA isdecl :
    With(IF isdecl THEN s ELSE error(s, "UndeclaredSym", get_name(name_tkn)), LAMBDA s1 :
    With(fnparams_expr(s1, name_tkn, class_sym), LAMBDA r :
    Try([r EXCEPT !.s.mcalls = IF isdecl THEN Append(@, MCallEv(s1, r, name_tkn, cd)) ELSE @],
        LAMBDA f :
    Ok(f.s, ClassFnCall(class_tkn, IF isdecl THEN get_name(cd.ident_tkn) ELSE "", name_tkn,
                        extract_params(f.ast), IF isdecl THEN cd.sc ELSE 0)))))))

\* class_expr, a property access `c.name` on the class declaration owner
class_prop_access(s, class_tkn, name_tkn, owner) ==
    With(IF owner.k = "ClassDecl" THEN map_get(owner.prop_pos, get_name(name_tkn)) ELSE 0,
         LAMBDA idx :
    Ok(IF idx = -1 THEN error(s, "InvalidClassProp", "") ELSE s,
       ClassPropAccess(class_tkn, get_name(name_tkn), IF idx = -1 THEN 0 ELSE idx, owner)))

class_expr(s0, class_tkn) ==
    Try(expect(s0, "Period"), LAMBDA e :
    With(match_ident_tkn(e.s), LAMBDA m :
    CASE currtkn(m.s).ty = "LeftParen" ->
           IF class_tkn = NoTkn THEN Panic(m.s)
           ELSE With(retrieve(m.s, get_name(class_tkn)), LAMBDA class_sym :
                IF is_none(class_sym) THEN Panic(m.s)
                ELSE IF class_sym.assign_val = NoAst THEN Panic(m.s)
                ELSE IF class_sym.assign_val.k # "ClassDecl" /\ m.tkn = NoTkn THEN Panic(m.s)
                ELSE class_method_call(m.s, class_tkn, m.tkn, class_sym))
      [] currtkn(m.s).ty = "Period" -> class_expr(m.s, m.tkn)
      [] OTHER ->
           IF class_tkn = NoTkn THEN Panic(m.s)
           ELSE With(retrieve(m.s, get_name(class_tkn)), LAMBDA class_sym :
                IF is_none(class_sym)
                THEN IF m.tkn = NoTkn THEN Panic(m.s)
                     ELSE Fail(m.s, "UndeclaredSym", get_name(m.tkn))
                ELSE IF class_sym.assign_val = NoAst THEN Panic(m.s)
                ELSE IF m.tkn = NoTkn THEN Panic(m.s)
                ELSE class_prop_access(m.s, class_tkn, m.tkn, class_sym.assign_val))))

\* the test of the argument loop of a call against FN_PARAM_MAX_LEN
args_exceeded(n) == n > FN_PARAM_MAX_LEN

\* one pass through the `while` of fnparams_expr: nothing once the loop has
\* been left
call_args_step(r) ==
    IF r.k # "ok" \/ currtkn(r.s).ty = "RightParen" THEN r
    ELSE IF args_exceeded(Len(r.ast.fn_args))
    THEN Fail(r.s, "FnParamCntExceeded", ToString(FN_PARAM_MAX_LEN))
    ELSE Try(expr(r.s), LAMBDA parm :
         IF currtkn(parm.s).ty = "RightParen"
         THEN Ok(parm.s, FnCall(NoTkn, Append(r.ast.fn_args, parm.ast)))
         ELSE Try(expect(parm.s, "Comma"), LAMBDA c :
              Ok(c.s, FnCall(NoTkn, Append(r.ast.fn_args, parm.ast)))))

\* 2^k passes through the `while` of fnparams_expr
call_args_iter(r, k) ==
    IF k = 0 THEN call_args_step(r)
    ELSE With(call_args_iter(r, k - 1), LAMBDA half :
         IF half.k # "ok" \/ currtkn(half.s).ty = "RightParen" THEN half
         ELSE call_args_iter(half, k - 1))

\* the `while` of fnparams_expr: the arguments up to the closing paren
call_args(s, params) == call_args_iter(Ok(s, FnCall(NoTkn, params)), LoopDepth)

\* history of fnparams_expr: the callee, and the arity it was checked against
CallEv(name, at, exp, got, fns) ==
    [name |-> name, at |-> at, exp |-> exp, got |-> got, fns |-> fns]

\* the parameters fnparams_expr expects: those of the function symbol, or of the
\* method of that name in the class
expected_params_of(fn_sym, maybe_class_sym, name) ==
    IF is_none(fn_sym)
    THEN IF is_none(maybe_class_sym) THEN NoParams
         ELSE method_params(maybe_class_sym.assign_val, name)
    ELSE fn_sym.fn_params

\* the end of fnparams_expr: the arity check, which records WrongFnParamCnt and
\* still returns the call
check_arity(s, fn_tkn, expected_params, params) ==
    With([s EXCEPT !.calls = Append(@, CallEv(get_name(fn_tkn), fn_tkn.at,
                                              Len(expected_params), Len(params), s.fns))],
         LAMBDA s1 :
    Ok(IF Len(expected_params) # Len(params)
       THEN error_w_pos(s1, fn_tkn.at, "WrongFnParamCnt",
                        ToString(Len(expected_params)) \o "," \o ToString(Len(params)))
       ELSE s1,
       FnCall(fn_tkn, params)))

fnparams_expr(s0, fn_tkn, maybe_class_sym) ==
    Try(expect(s0, "LeftParen"), LAMBDA e :
    IF fn_tkn = NoTkn THEN Panic(e.s)
    ELSE
    With(retrieve(e.s, get_name(fn_tkn)), LAMBDA fn_sym :
    IF is_none(fn_sym) /\ ~is_none(maybe_class_sym) /\ maybe_class_sym.assign_val = NoAst
    THEN Panic(e.s)
    ELSE
    With(expected_params_of(fn_sym, maybe_class_sym, get_name(fn_tkn)),
         LAMBDA maybe_expected_params :
    IF ~maybe_expected_params.some
    THEN Err(error_w_pos(looked_up(e.s, fn_tkn, fn_sym, NoParams, "UndeclaredSym"),
                         fn_tkn.at, "UndeclaredSym", get_name(fn_tkn)),
             ParseErr(fn_tkn.at, "UndeclaredSym", get_name(fn_tkn)))
    ELSE
    Try(call_args(looked_up(e.s, fn_tkn, fn_sym, maybe_expected_params, ""), <<>>),
        LAMBDA a :
    Try(expect(a.s, "RightParen"), LAMBDA c :
    check_arity(c.s, fn_tkn, maybe_expected_params.v, a.ast.fn_args))))))

unassigned_use_mut(s, sym) ==
    /\ sym.assign_val = NoAst
    /\ sym.sym_ty # "Param"
    /\ peek_tkn(s).ty # "Eq"

\* the test of primary_expr for a use of a variable that has no value yet
unassigned_use(s, sym) ==
    /\ sym.assign_val = NoAst
    /\ sym.sym_ty # "Param" /\ sym.sym_ty # "Fn"
    /\ peek_tkn(s).ty # "Eq"

\* `let err = self.error(ty); self.consume(); return Err(err)`
FailConsume_mut(s, ty, arg) == Fail(s, ty, arg)
FailConsume(s, ty, arg) == Err(consume(error(s, ty, arg)), ParseErr(s.pos, ty, arg))

\* history: a primary expression at an identifier: the symbol the name resolved
\* to, the result, and the position of the parser after it
PrimEv(s, sym, r) ==
    [at |-> s.pos, name |-> currtkn(s).name, declared |-> ~is_none(sym),
     has_val |-> ~is_none(sym) /\ sym.assign_val # NoAst, sym_ty |-> sym.sym_ty,
     k |-> r.k, err |-> r.err, end |-> r.s.pos,
     decl_at |-> IF is_none(sym) THEN 0 ELSE sym.ident_tkn.at]

\* primary_expr at an identifier
primary_ident(s, tk) ==
    With(retrieve(s, tk.name), LAMBDA sym :
    IF is_none(sym)
    THEN FailConsume(looked_up(s, tk, sym, NoParams, "UndeclaredSym"),
                     "UndeclaredSym", tk.name)
    ELSE IF unassigned_use(s, sym)
    THEN FailConsume(looked_up(s, tk, sym, sym.fn_params, "UnassignedVar"),
                     "UnassignedVar", tk.name)
    ELSE Ok(consume(looked_up(s, tk, sym, sym.fn_params, "")),
            PrimaryExpr([ty |-> sym.ty_rec.ty, tkn |-> tk])))

primary_expr(s) ==
    With(currtkn(s), LAMBDA tk :
    CASE tk.ty \in {"Str", "Val", "True", "False", "Null"} ->
           Ok(consume(s), PrimaryExpr(new_from_tkn(tk)))
      [] tk.ty = "Ident" ->
           With(primary_ident(s, tk), LAMBDA r :
           [r EXCEPT !.s.prims = Append(@, PrimEv(s, retrieve(s, tk.name), r))])
      [] tk.ty = "LeftParen" ->
           Try(expr(consume(s)), LAMBDA r :
           Try(expect(r.s, "RightParen"), LAMBDA c : Ok(c.s, r.ast)))
      [] tk.ty \in {"String", "Num", "Bool"} -> FailConsume(s, "InvalidAssign", to_string(tk))
      [] OTHER -> FailConsume(s, "InvalidTkn", to_string(tk)))

-----------------------------------------------------------------------------
(* Statements and declarations *)

RECURSIVE decl(_), var_decl(_), fn_decl(_), fn_params_loop(_, _), fn_params_iter(_, _), class_decl(_),
          class_loop(_, _, _, _, _), stmt(_), block_stmt(_), block_loop(_, _), if_stmt(_),
          if_loop(_, _, _), while_stmt(_), for_stmt(_), ret_stmt(_), expr_stmt(_)

expr_stmt(s) ==
    Try(expr(s), LAMBDA r :
    Try(expect(r.s, "Semicolon"), LAMBDA c : Ok(c.s, ExprStmt(r.ast))))

ret_stmt(s0) ==
    Try(expect(s0, "Return"), LAMBDA e :
    IF currtkn(e.s).ty = "Semicolon" THEN Ok(consume(e.s), RetStmt(NoAst))
    ELSE Try(expr(e.s), LAMBDA r :
         Try(expect(r.s, "Semicolon"), LAMBDA c : Ok(c.s, RetStmt(r.ast)))))

\* history: the clause of a for statement at the current token is the bare `;`
bare_clause(s) == [s EXCEPT !.bare = Append(@, s.pos)]

\* the first clause of a for statement
for_decl_clause(s) ==
    CASE currtkn(s).ty = "Semicolon" -> Ok(consume(bare_clause(s)), NoAst)
      [] currtkn(s).ty = "Let" -> var_decl(s)
      [] OTHER -> Fail(s, "InvalidForStmt", "")

\* the second or third clause of a for statement: `;` alone leaves it None
for_clause(s) ==
    IF currtkn(s).ty = "Semicolon" THEN Ok(consume(bare_clause(s)), NoAst) ELSE expr_stmt(s)

\* the body of for_stmt
for_clauses(s0) ==
    Try(expect(s0, "For"), LAMBDA e :
    Try(for_decl_clause(e.s), LAMBDA d :
    Try(for_clause(d.s), LAMBDA c :
    Try(for_clause(c.s), LAMBDA i :
    Try(block_stmt(i.s), LAMBDA b :
    \* for_var_decl.unwrap(), for_var_cond.unwrap(), for_incr_expr.unwrap()
    IF d.ast = NoAst \/ c.ast = NoAst \/ i.ast = NoAst THEN Panic(b.s)
    ELSE Ok(b.s, ForStmt(d.ast, c.ast, i.ast, b.ast)))))))

\* history: a call of for_stmt: where it started, what it returned, and the
\* positions of the clauses that it read as the bare `;`
ForEv(s0, r) ==
    [at |-> s0.pos, k |-> r.k, ast |-> r.ast, err |-> r.err, end |-> r.s.pos,
     bare |-> {r.s.bare[i] : i \in (Len(s0.bare) + 1)..Len(r.s.bare)}]

for_stmt(s0) ==
    With(for_clauses(s0), LAMBDA r : [r EXCEPT !.s.fors = Append(@, ForEv(s0, r))])

while_stmt(s0) ==
    Try(expect(s0, "While"), LAMBDA e :
    Try(expr(e.s), LAMBDA c :
    Try(block_stmt(c.s), LAMBDA b : Ok(b.s, WhileStmt(c.ast, b.ast)))))

\* history: an arm that if_stmt parsed after the `if` arm: at is the position of
\* its keyword, had_else tells that an else block had been parsed before it
ArmEv(kind, at, had_else) == [kind |-> kind, at |-> at, had_else |-> had_else]

armed(s, kind, at, else_blck) ==
    [s EXCEPT !.arms = Append(@, ArmEv(kind, at, else_blck # NoAst))]

\* the `loop` of if_stmt over the elif and else arms
if_loop(s, else_ifs, else_blck) ==
    CASE currtkn(s).ty = "Elif" ->
           Try(expr(consume(s)), LAMBDA c :
           Try(block_stmt(c.s), LAMBDA b :
           if_loop(armed(b.s, "elif", s.pos, else_blck),
                   Append(else_ifs, ElifStmt(c.ast, b.ast)), else_blck)))
      [] currtkn(s).ty = "Else" ->
           Try(block_stmt(consume(s)), LAMBDA b :
           if_loop(armed(b.s, "else", s.pos, else_blck), else_ifs, b.ast))
      [] OTHER -> Ok(s, IfStmt(NoAst, NoAst, else_ifs, else_blck))

if_stmt(s0) ==
    Try(expect(s0, "If"), LAMBDA e :
    Try(expr(e.s), LAMBDA c :
    Try(block_stmt(c.s), LAMBDA b :
    Try(if_loop(b.s, <<>>, NoAst), LAMBDA l :
    Ok(l.s, IfStmt(c.ast, b.ast, l.ast.elif_exprs, l.ast.el_stmts))))))

\* the `loop` of block_stmt: declarations up to `}` or Eof
block_loop(s, ss) ==
    IF currtkn(s).ty \in {"RightBrace", "Eof"} THEN Ok(s, BlckStmt(ss, 0))
    ELSE Try(decl(s), LAMBDA r : block_loop(r.s, Append(ss, r.ast)))

\* the end of block_stmt: the scope is closed and the block carries its level
block_close(s, ss) == Ok(s, BlckStmt(ss, finalized_level(s)))

block_stmt(s0) ==
    Try(expect(s0, "LeftBrace"), LAMBDA e :
    Try(block_loop(init_sc(e.s), <<>>), LAMBDA l :
    Try(expect(l.s, "RightBrace"), LAMBDA c :
    block_close(finalize_sc(c.s), l.ast.stmts))))

stmt(s) ==
    CASE currtkn(s).ty = "If" -> if_stmt(s)
      [] currtkn(s).ty = "While" -> while_stmt(s)
      [] currtkn(s).ty = "For" -> for_stmt(s)
      [] currtkn(s).ty = "Return" -> ret_stmt(s)
      [] currtkn(s).ty = "LeftBrace" -> block_stmt(s)
      [] OTHER -> expr_stmt(s)

decl(s) ==
    CASE currtkn(s).ty = "Let" -> var_decl(s)
      [] currtkn(s).ty = "Fn" -> fn_decl(s)
      [] currtkn(s).ty = "Class" -> class_decl(s)
      [] OTHER -> stmt(s)

\* the type token of a variable declaration: a type keyword other than void, or
\* an identifier that resolves to a Class symbol
TyTkn(s, is_class_type) ==
    [k |-> "ok", s |-> consume(s), ast |-> NoAst, err |-> NoErr,
     tkn |-> currtkn(s), is_class_type |-> is_class_type]

var_ty(s) ==
    IF is_ty(currtkn(s))
    THEN IF currtkn(s).ty = "Void" THEN Fail(s, "InvalidTy", to_string(currtkn(s)))
         ELSE TyTkn(s, FALSE)
    ELSE With(retrieve(s, get_name(currtkn(s))), LAMBDA maybe_class_sym :
         IF ~is_none(maybe_class_sym) /\ maybe_class_sym.sym_ty = "Class"
         THEN TyTkn(s, TRUE)
         ELSE Fail(s, "InvalidTy", to_string(currtkn(s))))

imm_needs_init_mut(is_imm) == FALSE

\* the test of var_decl that rejects `imm` without an initializer
imm_needs_init(is_imm) == is_imm

\* var_decl, the arm `= expr ;`
var_decl_assign(s, is_imm, ident_tkn, ty_rec) ==
    Try(expr(consume(s)), LAMBDA x :
    Try(expect(x.s, "Semicolon"), LAMBDA c :
    IF ident_tkn = NoTkn THEN Panic(c.s)
    ELSE With(store(c.s, get_name(ident_tkn),
                    Sym("Var", is_imm, ty_rec, ident_tkn, x.ast, NoParams)), LAMBDA s3 :
         Ok(s3, VarAssignExpr(ty_rec, ident_tkn, is_imm, is_global(s3), x.ast)))))

\* var_decl, the arm `;` of a variable of a class type: it takes the class
\* declaration as its value
var_decl_class(s, is_imm, ident_tkn, ty_tkn, ty_rec) ==
    With(retrieve(s, get_name(ty_tkn)).assign_val, LAMBDA cl_assign :
    With(store(s, get_name(ident_tkn),
               Sym("Var", is_imm, ty_rec, ident_tkn, cl_assign, NoParams)), LAMBDA s3 :
    IF cl_assign = NoAst THEN Panic(s3)
    ELSE Ok(s3, VarAssignExpr(ty_rec, ident_tkn, is_imm, is_global(s3), cl_assign))))

var_decl_plain_mut(s, is_imm, ident_tkn, ty_rec) ==
    With(store(s, get_name(ident_tkn),
               Sym("Var", is_imm, ty_rec, ident_tkn, NoAst, NoParams)), LAMBDA s3 :
    Ok(s3, VarDeclExpr(ty_rec, ident_tkn, is_imm, ~is_global(s3))))

\* var_decl, the arm `;` of a variable of a primitive type
var_decl_plain(s, is_imm, ident_tkn, ty_rec) ==
    With(store(s, get_name(ident_tkn),
               Sym("Var", is_imm, ty_rec, ident_tkn, NoAst, NoParams)), LAMBDA s3 :
    Ok(s3, VarDeclExpr(ty_rec, ident_tkn, is_imm, is_global(s3))))

\* var_decl from the token after the type on
var_decl_rest(s2, is_imm, ident_tkn, v) ==
    CASE currtkn(s2).ty = "Eq" -> var_decl_assign(s2, is_imm, ident_tkn, new_from_tkn(v.tkn))
      [] currtkn(s2).ty = "Semicolon" ->
           IF imm_needs_init(is_imm) THEN Fail(s2, "ImmDecl", to_string(currtkn(s2)))
           ELSE IF ident_tkn = NoTkn THEN Panic(consume(s2))
           ELSE IF v.is_class_type
           THEN var_decl_class(consume(s2), is_imm, ident_tkn, v.tkn, new_from_tkn(v.tkn))
           ELSE var_decl_plain(consume(s2), is_imm, ident_tkn, new_from_tkn(v.tkn))
      [] OTHER -> Fail(s2, "InvalidAssign", to_string(currtkn(s2)))

\* var_decl up to the type
var_decl_head(s0) ==
    Try(expect(s0, "Let"), LAMBDA e :
    With(currtkn(e.s).ty = "Imm", LAMBDA is_imm :
    With(match_ident_tkn(IF is_imm THEN consume(e.s) ELSE e.s), LAMBDA m :
    Try(expect(m.s, "Tilde"), LAMBDA t :
    Try(var_ty(t.s), LAMBDA v :
    var_decl_rest(v.s, is_imm, m.tkn, v))))))

\* history of var_decl: where it was called, whether only the global scope was
\* active, what it returned and the part of the table's history it wrote
VdEv(s0, r) ==
    [at |-> s0.pos, global |-> is_global(s0), k |-> r.k, ast |-> r.ast, err |-> r.err,
     log_from |-> Len(s0.log), log_to |-> Len(r.s.log)]

var_decl(s0) ==
    With(var_decl_head(s0), LAMBDA r :
    [k |-> r.k, s |-> [r.s EXCEPT !.vds = Append(@, VdEv(s0, r))], ast |-> r.ast,
     err |-> r.err])

\* the test of the parameter loop of fn_decl against FN_PARAM_MAX_LEN
param_cnt_exceeded(n) == n > FN_PARAM_MAX_LEN

\* the body of the `while` of fn_decl from the type of the parameter on
fn_param(s, params, ident_tkn, ty_rec) ==
    With(retrieve(s, ty_rec.ty.cls), LAMBDA class_sym :
    \* ty_rec.ty.clone().unwrap()
    IF ty_rec.ty = NoTy THEN Panic(s)
    ELSE IF ty_rec.ty.t = "Class" /\ is_none(class_sym)
    THEN Fail(s, "UndeclaredSym", ty_rec.ty.cls)
    ELSE
    With(consume(store(s, get_name(ident_tkn),
                       Sym("Param", FALSE, ty_rec, ident_tkn,
                           IF ty_rec.ty.t = "Class" THEN class_sym.assign_val ELSE NoAst,
                           NoParams))), LAMBDA s2 :
    IF currtkn(s2).ty = "RightParen"
    THEN Ok(s2, FnDecl(NoTkn, Append(params, ty_rec), NoTy, NoAst, 0))
    ELSE Try(expect(s2, "Comma"), LAMBDA c :
         Ok(c.s, FnDecl(NoTkn, Append(params, ty_rec), NoTy, NoAst, 0)))))

\* one pass through the `while` of fn_decl: nothing once the loop has been left
fn_params_step(r) ==
    IF r.k # "ok" \/ currtkn(r.s).ty = "RightParen" THEN r
    ELSE IF param_cnt_exceeded(Len(r.ast.fn_params))
    THEN Fail(r.s, "FnParamCntExceeded", ToString(FN_PARAM_MAX_LEN))
    ELSE Try(expect(consume(r.s), "Tilde"), LAMBDA t :
         fn_param(t.s, r.ast.fn_params, currtkn(r.s),
                  [ty |-> new_from_tkn(currtkn(t.s)).ty, tkn |-> currtkn(r.s)]))

\* 2^k passes through the `while` of fn_decl
fn_params_iter(r, k) ==
    IF k = 0 THEN fn_params_step(r)
    ELSE With(fn_params_iter(r, k - 1), LAMBDA half :
         IF half.k # "ok" \/ currtkn(half.s).ty = "RightParen" THEN half
         ELSE fn_params_iter(half, k - 1))

\* the `while` of fn_decl: the parameters up to the closing paren
fn_params_loop(s, params) ==
    fn_params_iter(Ok(s, FnDecl(NoTkn, params, NoTy, NoAst, 0)), LoopDepth)

\* the store fn_decl makes before it parses the body
store_tentative(s, name, fn_sym) == store(s, name, fn_sym)

\* history: the body of a function is entered and left
enter_fn(s, fn_ident_tkn, params) ==
    [s EXCEPT !.fns = Append(@, FnEntry(get_name(fn_ident_tkn), fn_ident_tkn.at, params))]
leave_fn(s) == [s EXCEPT !.fns = SubSeq(@, 1, Len(@) - 1)]

\* fn_decl from the return type on: the tentative symbol, the body, the final symbol
fn_decl_body(s, fn_ident_tkn, params, fn_ty_rec) ==
    Try(block_stmt(enter_fn(store_tentative(s, get_name(fn_ident_tkn),
                                            Sym("Fn", TRUE, fn_ty_rec, fn_ident_tkn, NoAst,
                                                SomeParams(params))),
                            fn_ident_tkn, params)), LAMBDA b :
    With(store(leave_fn(b.s), get_name(fn_ident_tkn),
               Sym("Fn", TRUE, fn_ty_rec, fn_ident_tkn, b.ast, SomeParams(params))),
         LAMBDA s1 :
    Ok(s1, FnDecl(fn_ident_tkn, params, fn_ty_rec, b.ast, finalized_level(s1)))))

fn_decl(s0) ==
    Try(expect(s0, "Fn"), LAMBDA e :
    Try(expect(consume(e.s), "LeftParen"), LAMBDA l :
    Try(fn_params_loop(l.s, <<>>), LAMBDA p :
    Try(expect(p.s, "RightParen"), LAMBDA r :
    Try(expect(r.s, "Tilde"), LAMBDA t :
    IF ~is_ty(currtkn(t.s)) THEN Fail(t.s, "InvalidTy", to_string(currtkn(t.s)))
    ELSE fn_decl_body(consume(t.s), currtkn(e.s), p.ast.fn_params,
                      new_from_tkn(currtkn(t.s))))))))

map_insert(m, key, v) == (key :> v) @@ m
EmptyMap == [x \in {} |-> 0]

\* the `loop` of class_decl over the members, up to `}` or an invalid token
class_loop(s, methods, props, prop_map, prop_ctr) ==
    CASE currtkn(s).ty = "Let" ->
           Try(var_decl(s), LAMBDA r :
           IF r.ast.k # "VarDeclExpr" THEN Fail(r.s, "InvalidClassProp", "")
           ELSE class_loop(r.s, methods, Append(props, r.ast),
                           map_insert(prop_map, get_name(r.ast.ident_tkn), prop_ctr),
                           prop_ctr + 1))
      [] currtkn(s).ty = "Fn" ->
           Try(fn_decl(s), LAMBDA r :
           class_loop(r.s, Append(methods, r.ast), props, prop_map, prop_ctr))
      [] currtkn(s).ty = "RightBrace" ->
           Ok(consume(s), ClassDecl(NoTkn, methods, props, prop_map, 0))
      [] OTHER ->
           Ok(error(s, "InvalidTkn", to_string(currtkn(s))),
              ClassDecl(NoTkn, methods, props, prop_map, 0))

\* the end of class_decl: the scope is closed, the class symbol stored
class_close(s1, class_tkn, l) ==
    With(ClassDecl(class_tkn, l.methods, l.props, l.prop_pos, finalized_level(s1)),
         LAMBDA ast :
    Ok(store(s1, get_name(class_tkn),
             Sym("Class", TRUE, new_from_tkn(class_tkn), class_tkn, ast, NoParams)), ast))

class_decl(s0) ==
    Try(expect(s0, "Class"), LAMBDA e :
    Try(expect(consume(e.s), "LeftBrace"), LAMBDA b :
    Try(class_loop(init_sc(b.s), <<>>, <<>>, EmptyMap, 0), LAMBDA l :
    class_close(finalize_sc(l.s), currtkn(e.s), l.ast))))

-----------------------------------------------------------------------------
(* The source files of the model *)

Let == T("Let")
Imm == T("Imm")
Tilde == T("Tilde")
Num == T("Num")
Str == T("String")
Void == T("Void")
Eq == T("Eq")
Semi == T("Semicolon")
LBrace == T("LeftBrace")
RBrace == T("RightBrace")
LParen == T("LeftParen")
RParen == T("RightParen")
Comma == T("Comma")
Fn == T("Fn")
Class == T("Class")
Return == T("Return")
Period == T("Period")
If == T("If")
Elif == T("Elif")
Else == T("Else")
For == T("For")
While == T("While")
Lt == T("Lt")

\* every token stream of at most MaxLen tokens over Alphabet
Alphabet == {LBrace, RBrace, Semi, Ident("x"), Eq, Val("1"), Let, Class}

RECURSIVE Streams(_)
Streams(n) ==
    IF n = 0 THEN {<<>>}
    ELSE LET shorter == Streams(n - 1)
         IN shorter \cup {Append(t, a) : t \in {u \in shorter : Len(u) = n - 1}, a \in Alphabet}

\* declarations and statements, well formed and not
Frags == <<
    <<Let, Ident("x"), Tilde, Num, Eq, Val("1"), Semi>>,
    <<Let, Imm, Ident("x"), Tilde, Num, Eq, Val("2"), Semi>>,
    <<Let, Imm, Ident("x"), Tilde, Num, Semi>>,
    <<Let, Ident("x"), Tilde, Num, Semi>>,
    <<Let, Ident("x"), Num, Semi>>,
    <<Let, Tilde, Num, Semi>>,
    <<Ident("x"), Eq, Val("3"), Semi>>,
    <<Ident("x"), Eq, Ident("y"), Semi>>,
    <<LBrace, Let, Ident("x"), Tilde, Str, Eq, T("Str"), Semi, Ident("x"), Eq, T("Str"), Semi,
      RBrace>>,
    <<LBrace, Ident("x"), Eq, Val("4"), Semi, RBrace>>,
    <<LBrace, Let, Imm, Ident("x"), Tilde, Num, Semi, RBrace>>,
    <<Fn, Ident("f"), LParen, Ident("a"), Tilde, Num, RParen, Tilde, Num, LBrace,
      Return, Ident("f"), LParen, Ident("a"), RParen, Semi, RBrace>>,
    <<Fn, Ident("f"), LParen, Ident("s"), Tilde, Str, RParen, Tilde, Void, LBrace,
      Ident("s"), Semi, RBrace>>,
    <<Ident("f"), LParen, Val("1"), RParen, Semi>>,
    <<Ident("f"), LParen, RParen, Semi>>,
    <<Class, Ident("C"), LBrace, Let, Ident("p"), Tilde, Num, Semi, RBrace>>,
    <<Class, Ident("C"), LBrace, Ident("x"), RBrace>>,
    <<Let, Ident("x"), Tilde, Ident("C"), Semi>>,
    <<Class, Ident("C"), LBrace, Fn, Ident("m"), LParen, RParen, Tilde, Num, LBrace,
      Return, Ident("m"), LParen, RParen, Semi, RBrace, RBrace>>,
    <<Fn, Ident("g"), LParen, RParen, Tilde, Num, LBrace,
      Return, Ident("g"), LParen, RParen, Semi, RBrace>>,
    <<Let, Ident("x"), Tilde, Num, Eq>>,
    <<Ident("x"), Eq, Ident("x"), Semi>>
>>

RECURSIVE FragSeqs(_)
FragSeqs(n) ==
    IF n = 0 THEN {<<>>}
    ELSE LET shorter == FragSeqs(n - 1)
         IN shorter \cup {Append(t, i) : t \in {u \in shorter : Len(u) = n - 1},
                                          i \in DOMAIN Frags}

FragPrograms == {Flatten([i \in DOMAIN fs |-> Frags[fs[i]]]) : fs \in FragSeqs(MaxDecls) \ {<<>>}}

\* `fn f ( p1 ~ num , ... , pn ~ num ) ~ num { return f ( 1 , ... , 1 ) ; }` with n
\* parameters and m arguments in the recursive call
ParamList(n) == Flatten([i \in 1..n |->
    (IF i = 1 THEN <<>> ELSE <<Comma>>) \o <<Ident("p" \o ToString(i)), Tilde, Num>>])
ArgList(m) == Flatten([i \in 1..m |-> (IF i = 1 THEN <<>> ELSE <<Comma>>) \o <<Val("1")>>])
FnProgram(n, m) ==
    <<Fn, Ident("f"), LParen>> \o ParamList(n) \o <<RParen, Tilde, Num, LBrace,
      Return, Ident("f"), LParen>> \o ArgList(m) \o <<RParen, Semi, RBrace>>

FnPrograms == {FnProgram(n, m) : n \in 0..MaxParams, m \in {0, 1}}
              \cup {FnProgram(n, n) : n \in 0..MaxParams}

\* `fn h ( ) ~ num { if 1 { A } elif 1 { B } ... else { B } return 1 ; }` with n elif
\* arms, with or without else; the arm A is `1 ;` or empty, and so are the arms B
Arm(full) == <<LBrace>> \o (IF full THEN <<Val("1"), Semi>> ELSE <<>>) \o <<RBrace>>
ElifArms(n, full) == Flatten([i \in 1..n |-> <<Elif, Val("1")>> \o Arm(full)])
IfProgram(n, has_else, then_full, rest_full) ==
    <<Fn, Ident("h"), LParen, RParen, Tilde, Num, LBrace, If, Val("1")>> \o Arm(then_full)
    \o ElifArms(n, rest_full) \o (IF has_else THEN <<Else>> \o Arm(rest_full) ELSE <<>>)
    \o <<Return, Val("1"), Semi, RBrace>>

IfPrograms == {IfProgram(n, e, a, b) : n \in 0..MaxElifs, e \in BOOLEAN, a \in BOOLEAN,
                                       b \in BOOLEAN}

\* statements and declarations each taken as a source file of its own
StmtPrograms == {
    <<For, Semi, Semi, Semi, LBrace, RBrace>>,
    <<For, Let, Ident("i"), Tilde, Num, Eq, Val("0"), Semi, Ident("i"), Lt, Val("1"), Semi,
      Ident("i"), Eq, Val("1"), Semi, LBrace, RBrace>>,
    <<For, Let, Ident("i"), Tilde, Num, Eq, Val("0"), Semi, Semi,
      Ident("i"), Eq, Val("1"), Semi, LBrace, RBrace>>,
    <<For, Let, Ident("i"), Tilde, Num, Eq, Val("0"), Semi, Ident("i"), Lt, Val("1"), Semi,
      Semi, LBrace, RBrace>>,
    <<For, Semi, Val("1"), Semi, Val("1"), Semi, LBrace, RBrace>>,
    <<For, Ident("x")>>,
    <<For, Semi, Semi, Semi, LBrace>>,
    <<Fn, Ident("w"), LParen, RParen, Tilde, Num, LBrace,
      For, Let, Ident("i"), Tilde, Num, Eq, Val("0"), Semi, Ident("i"), Lt, Val("1"), Semi,
      Ident("i"), Eq, Val("1"), Semi, LBrace, Val("1"), Semi, RBrace,
      While, Val("1"), LBrace, Val("1"), Semi, RBrace, Return, Val("1"), Semi, RBrace>>,
    <<If, Val("1"), LBrace, RBrace, Else, LBrace, RBrace, Elif, Val("1"), LBrace, RBrace>>,
    <<If, Val("1"), LBrace, RBrace, Else, LBrace, Val("1"), Semi, RBrace, Else, LBrace, RBrace>>,
    <<If, Val("1"), LBrace, RBrace, Elif, Val("1"), LBrace, RBrace, Else, LBrace, RBrace,
      Let, Ident("x"), Tilde, Num, Eq, Val("1"), Semi>>,
    <<Fn, Ident("f"), LParen, Ident("a"), Tilde, Num, RParen, Tilde, Num, LBrace,
      Ident("a"), Eq, Val("1"), Semi, Let, Ident("x"), Tilde, Num, Eq, Val("2"), Semi,
      LBrace, Let, Ident("y"), Tilde, Num, Semi, RBrace, Return, Ident("x"), Semi, RBrace>>,
    <<Fn, Ident("f"), LParen, RParen, Tilde, Num, LBrace,
      Fn, Ident("g"), LParen, RParen, Tilde, Num, LBrace, Return, Val("1"), Semi, RBrace,
      Let, Ident("x"), Tilde, Num, Eq, Val("1"), Semi, Return, Ident("x"), Semi, RBrace>>,
    <<Fn, Ident("f"), LParen, RParen, Tilde, Num, LBrace,
      Val("1"), Semi, If, Val("1"), LBrace, Let, Ident("y"), Tilde, Num, Eq, Val("3"), Semi, RBrace,
      Let, Ident("z"), Tilde, Str, Eq, T("Str"), Semi, Return, Val("1"), Semi, RBrace>>,
    <<Class, Ident("C"), LBrace, Let, Ident("p"), Tilde, Num, Semi,
      Let, Ident("q"), Tilde, Str, Semi, RBrace>>,
    <<Class, Ident("C"), LBrace, Let, Ident("p"), Tilde, Num, Semi,
      Let, Ident("p"), Tilde, Str, Semi, RBrace>>,
    <<Class, Ident("C"), LBrace, Let, Ident("p"), Tilde, Str, Semi,
      Fn, Ident("m"), LParen, RParen, Tilde, Num, LBrace,
      Let, Ident("z"), Tilde, Num, Eq, Val("1"), Semi, Return, Val("1"), Semi, RBrace,
      Let, Ident("q"), Tilde, T("Bool"), Semi, RBrace>>,
    <<Class, Ident("C"), LBrace, Let, Ident("p"), Tilde, Num, Semi, RBrace,
      Fn, Ident("k"), LParen, Ident("c"), Tilde, Ident("C"), Comma, Ident("b"), Tilde, T("Bool"),
      RParen, Tilde, Num, LBrace, Ident("c"), Semi, Return, Ident("b"), Semi, RBrace>>,
    <<Let, Ident("a"), Tilde, Str, Eq, T("Str"), Semi,
      Fn, Ident("f"), LParen, Ident("a"), Tilde, Num, RParen, Tilde, Num, LBrace,
      Return, Ident("a"), Semi, RBrace, Ident("a"), Semi>>,
    <<LBrace, Fn, Ident("f"), LParen, Ident("a"), Tilde, Num, RParen, Tilde, Num, LBrace,
      Return, Ident("a"), Semi, RBrace, RBrace>>,
    <<Fn, Ident("f"), LParen, RParen, Tilde, Num, LBrace,
      Let, Ident("x"), Tilde, Num, Eq, Val("1"), Semi,
      LBrace, Let, Ident("x"), Tilde, Num, Eq, Val("2"), Semi, RBrace,
      Return, Ident("x"), Semi, RBrace>>,
    <<Fn, Ident("v"), LParen, RParen, Tilde, Num, LBrace,
      For, Let, Ident("i"), Tilde, Num, Eq, Val("0"), Semi, Ident("i"), Lt, Val("1"), Semi,
      Ident("i"), Eq, Val("1"), Semi, LBrace, Val("1"), Semi, Val("2"), Semi, RBrace,
      Return, Val("1"), Semi, RBrace>>,
    <<Class, Ident("C"), LBrace, Fn, Ident("m"), LParen, RParen, Tilde, Num, LBrace,
      Return, Val("1"), Semi, RBrace, RBrace,
      Fn, Ident("m"), LParen, Ident("a"), Tilde, Num, RParen, Tilde, Num, LBrace,
      Return, Ident("a"), Semi, RBrace,
      Ident("C"), Period, Ident("m"), LParen, RParen, Semi>>,
    <<Class, Ident("C"), LBrace, Fn, Ident("m"), LParen, RParen, Tilde, Num, LBrace,
      Return, Val("1"), Semi, RBrace, RBrace,
      Ident("C"), Period, Ident("m"), LParen, Val("1"), RParen, Semi,
      Ident("C"), Period, Ident("k"), LParen, RParen, Semi,
      Ident("C"), Period, Ident("m"), LParen, RParen, Semi>>,
    <<Let, Ident("x"), Tilde, Num, Semi, Ident("x"), Eq, Val("3"), Semi, Ident("x"), Semi>>,
    <<Fn, Ident("u"), LParen, RParen, Tilde, Num, LBrace,
      For, Let, Ident("i"), Tilde, Num, Eq, Val("0"), Semi, Ident("i"), Lt, Val("1"), Semi,
      Ident("i"), Eq, Val("1"), Semi, LBrace, Ident("i"), Semi, RBrace,
      Return, Ident("i"), Semi, RBrace>>,
    <<Fn, Ident("r"), LParen, RParen, Tilde, Num, LBrace,
      If, Val("1"), LBrace, Return, Val("1"), Semi, RBrace, Return, Val("2"), Semi, RBrace>>,
    <<Class, Ident("C"), LBrace, Let, Ident("p"), Tilde, Num, Semi,
      Fn, Ident("m"), LParen, Ident("self"), Tilde, Num, RParen, Tilde, Num, LBrace,
      Return, Val("1"), Semi, RBrace, RBrace>>,
    <<Fn, Ident("f"), LParen, Ident("self"), Tilde, Num, RParen, Tilde, Num, LBrace,
      Return, Val("1"), Semi, RBrace>>
}

Programs == Streams(MaxLen) \cup FragPrograms \cup FnPrograms \cup IfPrograms \cup StmtPrograms

-----------------------------------------------------------------------------
(* The code generator (src/kolgac_llvm/src/llvm.rs).  Its state g holds the  *)
(* ValTab, the ClassTab, the errors vector, the class context of GenCtx and  *)
(* the function the builder is positioned in; g.k is "ok" while it runs,     *)
(* "panic" after a Rust panic and "crash" after undefined behaviour that     *)
(* ended the process.                                                        *)

\* an LLVMValueRef: what it is, the name it was built for, and its identity
LVal(kind, name, id) == [kind |-> kind, name |-> name, id |-> id]
\* Option<LLVMValueRef> None
NoVal == LVal("None", "", 0)

EmptyVals == [n \in {} |-> NoVal]
EmptyProps == [n \in {} |-> 0]

\* GenClsCtx::new, GenClsCtx::reset
NoClsCtx == [curr_cls |-> "", curr_props |-> EmptyProps, curr_self |-> NoVal]

\* history of the generator: the value-table calls and the lookups of callees,
\* each with the functions whose bodies are being generated at that moment
GenEv(op, name, val, fns) == [op |-> op, name |-> name, val |-> val, fns |-> fns]

\* history: a function whose body is being generated: its handle, and the
\* identifier it has in the source
GenFn(val, name) == [val |-> val, name |-> name, rebound |-> FALSE]

\* the result of gen_stmt (vals) or of gen_expr (v)
GRes(g, vals, v) == [g |-> g, vals |-> vals, v |-> v]
GStmt(g, vals) == GRes(g, vals, NoVal)
GExpr(g, v) == GRes(g, <<>>, v)

\* a panic or a crash ends the generation at once
GTry(r, K(_)) == IF r.g.k # "ok" THEN r ELSE K(r)

\* unwrap() of None, unimplemented!(), an index out of bounds
GPanic(g) == GRes([g EXCEPT !.k = "panic"], <<>>, NoVal)

\* history: a return statement the generator came to: whether a function was
\* being generated, and whether a `ret` was built for it
ret_seen(g, built) ==
    [g EXCEPT !.rets = Append(@, [in_fn |-> g.fn_open # <<>>, built |-> built])]

\* the `_` arm of gen_stmt: unimplemented!()
unimplemented(g, st) == GPanic(IF st.k = "RetStmt" THEN ret_seen(g, FALSE) ELSE g)

\* CodeGenerator::error
GenErr(ty, arg) == [ty |-> ty, at |-> 0, arg |-> arg]
gen_error(g, ty, arg) == [g EXCEPT !.errors = Append(@, GenErr(ty, arg))]

\* a new LLVM value
new_val(g, kind, name) == LVal(kind, name, g.n + 1)
bump(g) == [g EXCEPT !.n = @ + 1]

\* ValTab: a stack of maps name -> value; init_sc pushes, close_sc pops, store
\* writes the top map, retrieve searches from the top down
valtab_init_sc(g) ==
    [g EXCEPT !.valtab = Append(@, EmptyVals),
              !.log = Append(@, GenEv("init_sc", "", NoVal, g.fns))]

valtab_close_sc(g) ==
    [g EXCEPT !.valtab = SubSeq(@, 1, Len(@) - 1),
              !.log = Append(@, GenEv("close_sc", "", NoVal, g.fns))]

valtab_store(g, name, val) ==
    LET top == Len(g.valtab) IN
    [g EXCEPT !.valtab[top] = (name :> val) @@ @,
              !.log = Append(@, GenEv("store", name, val, g.fns)),
              !.fns = mark_rebound(@, name)]

RECURSIVE valtab_lookup(_, _, _)
valtab_lookup(tab, lvl, name) ==
    IF lvl = 0 THEN NoVal
    ELSE IF name \in DOMAIN tab[lvl] THEN tab[lvl][name]
    ELSE valtab_lookup(tab, lvl - 1, name)

valtab_retrieve(g, name) == valtab_lookup(g.valtab, Len(g.valtab), name)

\* valtab.store of the value of a declared name; history: the declaration, by
\* the position of its name in the source, and the value it was given
store_var(g, ident_tkn, val) ==
    [valtab_store(g, get_name(ident_tkn), val)
        EXCEPT !.slots = Append(@, [at |-> ident_tkn.at, name |-> get_name(ident_tkn),
                                    val |-> val])]

\* history: a use of a name, by its position in the source, and the value the
\* value table resolves the name to
referred(g, tkn) ==
    IF tkn.ty # "Ident" THEN g
    ELSE [g EXCEPT !.refs = Append(@, [at |-> tkn.at, name |-> tkn.name,
                                       val |-> valtab_retrieve(g, tkn.name)])]

\* ClassTab: flat, class name -> the types of the struct's fields
classtab_store(g, name, tys) ==
    [g EXCEPT !.classtab = (name :> tys) @@ @]

classtab_has(g, name) == name \in DOMAIN g.classtab

\* CodeGenerator::new over ValTab::new; ub is the place (counted from 1) at which
\* undefined behaviour ends the process, 0 if it never does
NewGen(ub) ==
    [valtab |-> <<EmptyVals>>, classtab |-> [n \in {} |-> <<>>], errors |-> <<>>,
     k |-> "ok", n |-> 0, builder_fn |-> NoVal, cls |-> NoClsCtx, fns |-> <<>>,
     log |-> <<>>, src_fn |-> "", ub |-> ub, ub_seen |-> 0,
     bbs |-> <<>>, instrs |-> <<>>, insert_bb |-> 0, owners |-> <<>>, ifs |-> <<>>,
     bodies |-> <<>>, structs |-> <<>>, fn_open |-> <<>>, fdecls |-> <<>>,
     slots |-> <<>>, refs |-> <<>>, floops |-> <<>>, rets |-> <<>>,
     cls_open |-> <<>>, self_idx |-> 0]

\* a place whose behaviour is undefined: the process goes on or ends there
undefined_behaviour(g) ==
    IF g.ub_seen + 1 = g.ub THEN [g EXCEPT !.k = "crash", !.ub_seen = @ + 1]
    ELSE [g EXCEPT !.ub_seen = @ + 1]

\* LLVMGetBasicBlockParent(LLVMGetInsertBlock(builder)): a null block is
\* dereferenced when the builder was never positioned
insert_fn(g) == IF g.builder_fn = NoVal THEN undefined_behaviour(g) ELSE g

\* llvm_ty_from_ty_rec: classtab.retrieve(&name).unwrap() for a class type
ty_known(g, ty_rec) == ty_rec.ty.t # "Class" \/ classtab_has(g, ty_rec.ty.cls)

\* llvm_ty_from_ty_rec: the LLVM type a declared type is lowered to
llvm_ty_from_ty_rec(ty_rec, class_to_ptr) ==
    CASE ty_rec.ty.t = "String" -> "i8*"
      [] ty_rec.ty.t = "Num" -> "double"
      [] ty_rec.ty.t = "Bool" -> "i8"
      [] ty_rec.ty.t = "Void" -> "void"
      [] ty_rec.ty.t = "Class" ->
           IF class_to_ptr THEN "%" \o ty_rec.ty.cls \o "*" ELSE "%" \o ty_rec.ty.cls
      [] OTHER -> "none"

\* the lowered type is a pointer: strings, and classes passed as parameters
is_pointer_ty(ty_rec) == ty_rec.ty.t \in {"String", "Class"}

\* a basic block: its identity, the function it belongs to and its name; g.bbs
\* holds the blocks in the order of the layout
BB(id, fn, name) == [id |-> id, fn |-> fn, name |-> name]

\* an instruction: the block it is in (0 when the builder had no position),
\* the function that was being generated when it was built (NoVal outside of any),
\* and whether build_entry_bb_alloca built it; g.instrs holds the instructions
\* of each block in their order in the block
Instr(id, bb, kind, name, owner, entry) ==
    [id |-> id, bb |-> bb, kind |-> kind, name |-> name, owner |-> owner, entry |-> entry]

bb_of(g, id) == CHOOSE b \in {g.bbs[i] : i \in DOMAIN g.bbs} : b.id = id

\* the function whose body is being generated
owner(g) == IF g.owners = <<>> THEN NoVal ELSE g.owners[Len(g.owners)]

\* LLVMAppendBasicBlockInContext: a new block at the end of the function; its
\* identity is g.n afterwards
append_bb(g, fn, name) ==
    [g EXCEPT !.n = @ + 1, !.bbs = Append(@, BB(g.n + 1, fn, name))]

has_bb(g, id) == \E i \in DOMAIN g.bbs : g.bbs[i].id = id

\* LLVMMoveBasicBlockAfter(bb, pos)
move_bb_after(g, bb, pos) ==
    IF bb = pos \/ ~has_bb(g, bb) \/ ~has_bb(g, pos) THEN g
    ELSE LET moved == [bb_of(g, bb) EXCEPT !.fn = bb_of(g, pos).fn]
             rest == SelectSeq(g.bbs, LAMBDA b : b.id # bb)
             at == CHOOSE i \in DOMAIN rest : rest[i].id = pos
         IN  [g EXCEPT !.bbs = SubSeq(rest, 1, at) \o <<moved>>
                                   \o SubSeq(rest, at + 1, Len(rest))]

\* LLVMPositionBuilderAtEnd
position_at_end(g, bb) ==
    IF ~has_bb(g, bb) THEN [g EXCEPT !.insert_bb = 0, !.builder_fn = NoVal]
    ELSE [g EXCEPT !.insert_bb = bb, !.builder_fn = bb_of(g, bb).fn]

\* an instruction built by the builder, at the end of its block
emit(g, kind, name) ==
    [g EXCEPT !.n = @ + 1,
              !.instrs = Append(@, Instr(g.n + 1, g.insert_bb, kind, name, owner(g), FALSE))]

\* LLVMGetEntryBasicBlock: the first block of the function in the layout
entry_bb(g, func) ==
    LET own == SelectSeq(g.bbs, LAMBDA b : b.fn = func) IN
    IF own = <<>> THEN 0 ELSE own[1].id

\* build_entry_bb_alloca: a builder of its own, positioned in front of the
\* first instruction of the entry block of func
build_entry_bb_alloca(g, func, ty_rec, name) ==
    IF ~ty_known(g, ty_rec) THEN GPanic(g)
    ELSE GExpr([g EXCEPT !.n = @ + 1,
                         !.instrs = <<Instr(g.n + 1, entry_bb(g, func), "alloca", name,
                                            owner(g), TRUE)>> \o @],
               new_val(g, "alloca", name))

\* the parser's VarAssign of a class-typed variable carries the class
\* declaration as its value: the generator's ClassConstrExpr
is_class_constr(value) == value.k = "ClassDecl"

RECURSIVE gen_stmt(_, _), gen_expr(_, _), gen_block(_, _, _), gen_args(_, _, _), gen_args_range(_, _, _, _),
          fn_decl_stmt(_, _, _, _, _), fn_body(_, _), gen_params(_, _, _), gen_params_range(_, _, _, _),
          class_decl_stmt(_, _, _, _, _), gen_methods(_, _, _), gen_if_stmt(_, _),
          gen_elifs(_, _, _, _, _), gen_arm(_, _, _, _, _), gen_else(_, _, _, _), gen_while_stmt(_, _), gen_for_stmt(_, _)

\* a value built by the builder: an instruction at the end of its block, unless
\* the value is a constant
build(g, kind, name) ==
    IF kind \in {"const", "str"} THEN GExpr(bump(g), new_val(g, kind, name))
    ELSE GExpr(emit(g, kind, name), new_val(g, kind, name))

\* CodeGenerator::primary_expr; is_self marks an identifier met while a class
\* is being generated
gen_primary_expr(g, ty_rec, is_self) ==
    CASE ty_rec.tkn.ty = "Val" -> build(g, "const", ty_rec.tkn.name)
      [] ty_rec.tkn.ty = "Str" ->
           \* LLVMBuildGlobalStringPtr reaches the module through the insert block
           GTry(GExpr(insert_fn(g), NoVal), LAMBDA r : build(r.g, "str", ""))
      [] ty_rec.tkn.ty \in {"True", "False"} -> build(g, "const", ty_rec.tkn.ty)
      [] ty_rec.tkn.ty = "Ident" ->
           IF valtab_retrieve(g, ty_rec.tkn.name) # NoVal
           THEN build(g, "load", ty_rec.tkn.name)
           ELSE IF is_self
           THEN \* curr_props.get(name).unwrap(), curr_self.unwrap()
                IF ty_rec.tkn.name \notin DOMAIN g.cls.curr_props \/ g.cls.curr_self = NoVal
                THEN GPanic(g)
                ELSE build(g, "load", ty_rec.tkn.name)
           ELSE GExpr(g, NoVal)
      [] OTHER -> GPanic(g)

\* the arguments of a call: InvalidFnParam for the first that yields no value,
\* and then no call is built
ArgsOk == LVal("args", "", 0)

\* the `for` of fn_call_expr over the arguments lo..hi: the values of the
\* arguments, or InvalidFnParam at the first argument without a value
gen_args_range(g, args, lo, hi) ==
    IF lo > hi THEN GRes(g, <<>>, ArgsOk)
    ELSE IF lo = hi
    THEN GTry(gen_expr(g, args[lo]), LAMBDA r :
         IF r.v = NoVal THEN GExpr(gen_error(r.g, "InvalidFnParam", ""), NoVal)
         ELSE GRes(r.g, <<r.v>>, ArgsOk))
    ELSE GTry(gen_args_range(g, args, lo, (lo + hi) \div 2), LAMBDA a :
         IF a.v = NoVal THEN a
         ELSE GTry(gen_args_range(a.g, args, (lo + hi) \div 2 + 1, hi), LAMBDA b :
              IF b.v = NoVal THEN b ELSE GRes(b.g, a.vals \o b.vals, ArgsOk)))

gen_args(g, args, acc) ==
    GTry(gen_args_range(g, args, 1, Len(args)), LAMBDA a :
    IF a.v = NoVal THEN a ELSE GRes(a.g, acc \o a.vals, ArgsOk))

\* the lookup of a callee in the value table
callee(g, name) ==
    [g EXCEPT !.log = Append(@, GenEv("callee", name, valtab_retrieve(g, name), g.fns))]

\* CodeGenerator::fn_call_expr
fn_call_expr(g, fn_tkn, fn_params) ==
    IF valtab_retrieve(g, get_name(fn_tkn)) = NoVal
    THEN GExpr(gen_error(callee(g, get_name(fn_tkn)), "InvalidFn", get_name(fn_tkn)), NoVal)
    ELSE GTry(gen_args(callee(g, get_name(fn_tkn)), fn_params, <<>>), LAMBDA a :
         IF a.v = NoVal THEN GExpr(a.g, NoVal)
         ELSE build(a.g, "call", get_name(fn_tkn)))

\* the name a method has in the value table
method_name(class_name, fn_name) == class_name \o "." \o fn_name

\* CodeGenerator::class_fn_call_expr
class_fn_call_expr(g, class_tkn, class_name, fn_tkn, fn_params) ==
    IF valtab_retrieve(g, method_name(class_name, get_name(fn_tkn))) = NoVal
    THEN GExpr(gen_error(g, "InvalidFn", get_name(fn_tkn)), NoVal)
    \* class_instance.unwrap()
    ELSE IF valtab_retrieve(g, get_name(class_tkn)) = NoVal THEN GPanic(g)
    ELSE GTry(gen_args(g, fn_params, <<valtab_retrieve(g, get_name(class_tkn))>>), LAMBDA a :
         IF a.v = NoVal THEN GExpr(a.g, NoVal)
         ELSE build(a.g, "call", method_name(class_name, get_name(fn_tkn))))

\* CodeGenerator::class_prop_expr; assign_val is NoAst for an access
class_prop_expr(g, ident_tkn, prop_name, assign_val) ==
    IF valtab_retrieve(g, get_name(ident_tkn)) = NoVal
    THEN GExpr(gen_error(g, "InvalidClass", get_name(ident_tkn)), NoVal)
    ELSE IF assign_val = NoAst THEN build(emit(g, "gep", prop_name), "load", prop_name)
    ELSE GTry(gen_expr(emit(g, "gep", prop_name), assign_val), LAMBDA r :
         IF r.v = NoVal THEN GPanic(r.g) ELSE build(r.g, "store", prop_name))

\* gen_expr of a VarAssignExpr: a re-assignment of a variable
reassign_expr(g, ident_tkn, value) ==
    \* self.valtab.retrieve(..).unwrap(), self.gen_expr(..).unwrap()
    IF valtab_retrieve(g, get_name(ident_tkn)) = NoVal THEN GPanic(g)
    ELSE GTry(gen_expr(g, value), LAMBDA r :
         IF r.v = NoVal THEN GPanic(r.g)
         ELSE GExpr([emit(r.g, "store", get_name(ident_tkn)) EXCEPT !.log =
                        Append(@, GenEv("assign", get_name(ident_tkn),
                                        valtab_retrieve(g, get_name(ident_tkn)), g.fns))],
                    r.v))

\* gen_expr of two operands: None if either is None
gen_binary(g, op_tkn, lhs, rhs) ==
    GTry(gen_expr(g, lhs), LAMBDA l :
    GTry(gen_expr(l.g, rhs), LAMBDA r :
    IF l.v = NoVal \/ r.v = NoVal THEN GExpr(r.g, NoVal)
    ELSE build(r.g, "binop", op_tkn.ty)))

\* CodeGenerator::unary_expr
gen_unary_expr(g, op_tkn, rhs) ==
    GTry(gen_expr(g, rhs), LAMBDA r :
    IF r.v = NoVal THEN GExpr(r.g, NoVal)
    ELSE IF op_tkn.ty \in {"Minus", "Bang"} THEN build(r.g, "unop", op_tkn.ty)
    ELSE GExpr(r.g, NoVal))

\* gen_expr of a ClassConstrExpr
class_constr_expr(g, class_name) ==
    IF classtab_has(g, class_name) THEN build(g, "alloca", class_name)
    ELSE GExpr(gen_error(g, "InvalidClass", class_name), NoVal)

gen_expr(g, e) ==
    CASE e.k = "PrimaryExpr" ->
           gen_primary_expr(referred(g, e.ty_rec.tkn), e.ty_rec, g.cls.curr_cls # "")
      [] e.k \in {"BinaryExpr", "LogicalExpr"} -> gen_binary(g, e.op_tkn, e.lhs, e.rhs)
      [] e.k = "UnaryExpr" -> gen_unary_expr(g, e.op_tkn, e.rhs)
      [] e.k = "FnCall" -> fn_call_expr(g, e.fn_tkn, e.fn_args)
      [] e.k = "ClassFnCall" ->
           class_fn_call_expr(g, e.class_tkn, e.class_name, e.fn_tkn, e.fn_args)
      [] e.k = "VarAssignExpr" -> reassign_expr(g, e.ident_tkn, e.value)
      [] e.k = "ClassDecl" -> class_constr_expr(g, get_name(e.ident_tkn))
      [] e.k = "ClassPropAccess" -> class_prop_expr(g, e.ident_tkn, e.prop_name, NoAst)
      [] e.k = "ClassPropSet" -> class_prop_expr(g, e.ident_tkn, e.prop_name, e.assign_val)
      [] OTHER -> GPanic(g)

\* the statements of a block, in order; the values they yield are collected
gen_block(g, ss, acc) ==
    IF ss = <<>> THEN GStmt(g, acc)
    ELSE GTry(gen_stmt(g, Head(ss)), LAMBDA r : gen_block(r.g, Tail(ss), acc \o r.vals))

\* CodeGenerator::global_var_assign
global_var_assign(g, ty_rec, ident_tkn, value) ==
    IF is_class_constr(value)
    THEN IF ~classtab_has(g, get_name(value.ident_tkn))
         THEN GStmt(gen_error(g, "InvalidClass", get_name(ident_tkn)), <<>>)
         ELSE GStmt(store_var(bump(g), ident_tkn,
                                 new_val(g, "global", get_name(ident_tkn))),
                    <<new_val(g, "global", get_name(ident_tkn))>>)
    ELSE IF ~ty_known(g, ty_rec) THEN GPanic(g)
    ELSE GTry(gen_expr(bump(g), value), LAMBDA r :
         \* self.gen_expr(..).unwrap()
         IF r.v = NoVal THEN GPanic(r.g)
         ELSE GStmt(store_var(r.g, ident_tkn,
                                 new_val(g, "global", get_name(ident_tkn))),
                    <<new_val(g, "global", get_name(ident_tkn))>>))

\* CodeGenerator::local_var_assign
local_var_assign(g, ty_rec, ident_tkn, value) ==
    GTry(GStmt(insert_fn(g), <<>>), LAMBDA i :
    GTry(build_entry_bb_alloca(i.g, i.g.builder_fn, ty_rec, get_name(ident_tkn)), LAMBDA a :
    IF is_class_constr(value)
    THEN GStmt(store_var(a.g, ident_tkn, a.v), <<a.v>>)
    ELSE GTry(gen_expr(a.g, value), LAMBDA r :
         IF r.v = NoVal THEN GPanic(r.g)
         ELSE GStmt(store_var(emit(r.g, "store", get_name(ident_tkn)), ident_tkn, a.v), <<a.v>>))))

\* CodeGenerator::var_assign_expr
var_assign_expr(g, ty_rec, ident_tkn, is_global_var, value) ==
    IF is_global_var THEN global_var_assign(g, ty_rec, ident_tkn, value)
    ELSE local_var_assign(g, ty_rec, ident_tkn, value)

\* gen_stmt of a VarDeclExpr
var_decl_expr(g, ty_rec, ident_tkn, is_global_var) ==
    IF is_global_var
    THEN IF ~ty_known(g, ty_rec) THEN GPanic(g)
         ELSE GStmt(store_var(bump(g), ident_tkn,
                                 new_val(g, "global", get_name(ident_tkn))),
                    <<new_val(g, "global", get_name(ident_tkn))>>)
    ELSE GTry(GStmt(insert_fn(g), <<>>), LAMBDA i :
         GTry(build_entry_bb_alloca(i.g, i.g.builder_fn, ty_rec, get_name(ident_tkn)), LAMBDA a :
         GStmt(store_var(a.g, ident_tkn, a.v), <<a.v>>)))

\* the body of the `for` of fn_decl_stmt over the parameters: `self` is kept,
\* a pointer is skipped, any other parameter is copied to a slot of the frame
gen_param(g, ty_rec) ==
    With(get_name(ty_rec.tkn), LAMBDA name :
    With(IF name = "self"
         THEN [g EXCEPT !.cls.curr_self = LVal("param", name, g.builder_fn.id)]
         ELSE g, LAMBDA g1 :
    IF is_pointer_ty(ty_rec) THEN GStmt(g1, <<>>)
    ELSE GTry(build_entry_bb_alloca(g1, owner(g1), ty_rec, name), LAMBDA a :
         GStmt(store_var(emit(a.g, "store", name), ty_rec.tkn, a.v), <<>>))))

\* history: the index of the parameter curr_self was last taken from
gen_param_at(g, fn_params, idx) ==
    gen_param(IF get_name(fn_params[idx].tkn) = "self" THEN [g EXCEPT !.self_idx = idx] ELSE g,
              fn_params[idx])

\* the `for` of fn_decl_stmt over the parameters idx..last
gen_params_range(g, fn_params, idx, last) ==
    IF idx > last THEN GStmt(g, <<>>)
    ELSE IF idx = last THEN gen_param_at(g, fn_params, idx)
    ELSE GTry(gen_params_range(g, fn_params, idx, (idx + last) \div 2), LAMBDA h :
         gen_params_range(h.g, fn_params, (idx + last) \div 2 + 1, last))

gen_params(g, fn_params, idx) == gen_params_range(g, fn_params, idx, Len(fn_params))

\* the store fn_decl_stmt makes before it generates the body
store_fn_handle(g, name, llvm_fn) == valtab_store(g, name, llvm_fn)

\* CodeGenerator::fn_body: a return is built inline, anything else is gen_stmt
fn_body(g, ss) ==
    IF ss = <<>> THEN GStmt(g, <<>>)
    ELSE IF Head(ss).k = "RetStmt"
    THEN IF Head(ss).ret_expr = NoAst
         THEN fn_body(ret_seen(emit(g, "ret", ""), TRUE), Tail(ss))
         ELSE GTry(gen_expr(g, Head(ss).ret_expr), LAMBDA r :
              \* llvm_val.unwrap()
              IF r.v = NoVal THEN GPanic(r.g)
              ELSE fn_body(ret_seen(emit(r.g, "ret", ""), TRUE), Tail(ss)))
    ELSE GTry(gen_stmt(g, Head(ss)), LAMBDA r : fn_body(r.g, Tail(ss)))

\* history: the parameters of a function as the value table resolves them when
\* the parameter loop of fn_decl_stmt is over and the body is about to be generated
BodyEv(g, llvm_fn, fn_params) ==
    [fn |-> llvm_fn, params |-> fn_params,
     vals |-> [i \in DOMAIN fn_params |-> valtab_retrieve(g, get_name(fn_params[i].tkn))],
     \* the class context, the class being generated, the functions being
     \* generated, and whether this one is a method of the class
     cls |-> g.cls, cls_open |-> g.cls_open, self_idx |-> g.self_idx,
     depth |-> Len(g.fn_open), method |-> g.src_fn # ""]

enter_body(g, llvm_fn, fn_params) ==
    [g EXCEPT !.bodies = Append(@, BodyEv(g, llvm_fn, fn_params))]

\* LLVMAddFunction, the entry block appended to the function, and the builder
\* positioned at its end
add_function(g, name) ==
    With(append_bb(bump(g), new_val(g, "fn", name), name), LAMBDA g2 :
    [position_at_end(g2, g2.n) EXCEPT !.owners = Append(@, new_val(g, "fn", name))])

\* history: fn_decl_stmt is entered: the value table and the length of the log
\* at that moment
fn_entered(g) ==
    [g EXCEPT !.fn_open = Append(@, [valtab |-> g.valtab, log_from |-> Len(g.log)])]

\* history: a call of fn_decl_stmt that returned: the value table before and
\* after it, and the part of the log it wrote
FnDeclEv(g, open, name, llvm_fn, fn_params) ==
    [name |-> name, fn |-> llvm_fn, params |-> fn_params, before |-> open.valtab,
     after |-> g.valtab, log_from |-> open.log_from, log_to |-> Len(g.log)]

fn_returned(g, name, llvm_fn, fn_params) ==
    [g EXCEPT !.fn_open = SubSeq(@, 1, Len(@) - 1),
              !.fdecls = Append(@, FnDeclEv(g, g.fn_open[Len(g.fn_open)], name, llvm_fn,
                                            fn_params))]

\* the end of fn_decl_stmt with the scope of the function left open
fn_decl_end_mut(g, name, llvm_fn) == valtab_store(g, name, llvm_fn)

\* the end of fn_decl_stmt: the scope of the function is closed, and the handle
\* stored in the scope around it
fn_decl_end(g, name, llvm_fn) == valtab_store(valtab_close_sc(g), name, llvm_fn)

\* fn_decl_stmt from LLVMGetParams on; the parameter values are read through a
\* pointer into a vector that was dropped, which is undefined when there are any
fn_decl_rest(g, ident_tkn, fn_params, body, llvm_fn) ==
    GTry(GStmt(IF Len(fn_params) > 0 THEN undefined_behaviour(g) ELSE g, <<>>), LAMBDA u :
    GTry(gen_params(u.g, fn_params, 1), LAMBDA p :
    GTry(fn_body([store_fn_handle(enter_body(p.g, llvm_fn, fn_params),
                                  get_name(ident_tkn), llvm_fn)
                     EXCEPT !.fns = Append(@, GenFn(llvm_fn,
                                                    IF p.g.src_fn # "" THEN p.g.src_fn
                                                    ELSE get_name(ident_tkn))),
                            !.src_fn = ""],
                 IF body.k = "BlckStmt" THEN body.stmts ELSE <<>>), LAMBDA b :
    GStmt(fn_returned(fn_decl_end([b.g EXCEPT !.fns = SubSeq(@, 1, Len(@) - 1),
                                              !.owners = SubSeq(@, 1, Len(@) - 1)],
                                  get_name(ident_tkn), llvm_fn),
                      get_name(ident_tkn), llvm_fn, fn_params), <<>>))))

\* CodeGenerator::fn_decl_stmt
fn_decl_stmt(g, ident_tkn, fn_params, ret_ty, body) ==
    With(valtab_init_sc(fn_entered(g)), LAMBDA g1 :
    \* llvm_ty_from_ty_rec of the return type and of each parameter
    IF ~ty_known(g1, ret_ty) \/ \E i \in DOMAIN fn_params : ~ty_known(g1, fn_params[i])
    THEN GPanic(g1)
    ELSE fn_decl_rest(add_function(g1, get_name(ident_tkn)),
                      ident_tkn, fn_params, body, new_val(g1, "fn", get_name(ident_tkn))))

\* the `self` parameter class_decl_stmt puts in front of a method's parameters
self_param(class_tkn) ==
    [ty |-> TyName("Class", get_name(class_tkn)),
     tkn |-> [ty |-> "Ident", name |-> "self", at |-> class_tkn.at]]

\* the loop of class_decl_stmt over the methods: each is generated as the
\* function CLASS.METHOD with the class as its first parameter
gen_methods(g, class_tkn, methods) ==
    IF methods = <<>> THEN GStmt(g, <<>>)
    ELSE IF Head(methods).k # "FnDecl" THEN gen_methods(g, class_tkn, Tail(methods))
    ELSE GTry(fn_decl_stmt([g EXCEPT !.src_fn = get_name(Head(methods).ident_tkn)],
                           [ty |-> "Ident",
                            name |-> method_name(get_name(class_tkn),
                                                 get_name(Head(methods).ident_tkn)),
                            at |-> Head(methods).ident_tkn.at],
                           <<self_param(class_tkn)>> \o Head(methods).fn_params,
                           Head(methods).ret_ty, Head(methods).fn_body), LAMBDA r :
         gen_methods(r.g, class_tkn, Tail(methods)))

\* the `for` of class_decl_stmt over the props: the lowered type of each
\* VarDeclExpr, in the order of props
prop_tys(props) ==
    LET var_decls == SelectSeq(props, LAMBDA p : p.k = "VarDeclExpr") IN
    [i \in DOMAIN var_decls |-> llvm_ty_from_ty_rec(var_decls[i].ty_rec, FALSE)]

\* LLVMStructCreateNamed and LLVMStructSetBody; history: the struct of the class
\* whose name is the token ident_tkn
struct_set_body(g, ident_tkn, tys) ==
    [g EXCEPT !.structs = Append(@, [name |-> get_name(ident_tkn), at |-> ident_tkn.at,
                                     tys |-> tys])]

\* GenClsCtx::reset at the end of class_decl_stmt
cls_reset(g) == [g EXCEPT !.cls = NoClsCtx]

\* CodeGenerator::class_decl_stmt
class_decl_stmt(g, ident_tkn, methods, props, prop_pos) ==
    IF \E i \in DOMAIN props : props[i].k = "VarDeclExpr" /\ ~ty_known(g, props[i].ty_rec)
    THEN GPanic(g)
    ELSE
    GTry(gen_methods([classtab_store(struct_set_body(g, ident_tkn, prop_tys(props)),
                                     get_name(ident_tkn), prop_tys(props))
                         EXCEPT !.cls = [curr_cls |-> get_name(ident_tkn),
                                         curr_props |-> prop_pos,
                                         curr_self |-> NoVal],
                                !.cls_open = Append(@, [name |-> get_name(ident_tkn),
                                                        prop_pos |-> prop_pos])],
                     ident_tkn, methods), LAMBDA r :
    GStmt(cls_reset([r.g EXCEPT !.cls_open = SubSeq(@, 1, Len(@) - 1)]), <<>>))

\* LLVMAddIncoming reads one value through the pointer of the vector of the
\* arm's values: undefined when the arm yielded none
add_incoming(g, arm, vals) ==
    [(IF vals = <<>> THEN undefined_behaviour(g) ELSE g)
        EXCEPT !.log = Append(@, GenEv("incoming", arm, NoVal, g.fns))]

\* LLVMAppendBasicBlockInContext and LLVMMoveBasicBlockAfter(.., pos)
append_bb_after(g, fn, name, pos) ==
    With(append_bb(g, fn, name), LAMBDA g1 : move_bb_after(g1, g1.n, pos))

\* history: an if statement that is generated: its blocks, the block the else
\* block is put after, and the arms generated so far
IfEv(fn, insert_bb, then_bb, else_bb, merge_bb, has_else) ==
    [fn |-> fn, insert_bb |-> insert_bb, then_bb |-> then_bb, else_bb |-> else_bb,
     merge_bb |-> merge_bb, elif_bb_vec |-> <<>>, elif_code_bbs |-> <<>>,
     final_elif_bb |-> then_bb, has_else |-> has_else, n_elif |-> 0, arms |-> <<>>,
     done |-> FALSE]

\* history: an arm whose statements were generated: the values they yielded,
\* the block the arm ends in, and whether an incoming edge was added for it
ArmRec(kind, vals, end_bb, incoming) ==
    [kind |-> kind, n_vals |-> Len(vals), end_bb |-> end_bb, incoming |-> incoming]

arm_done(g, ci, kind, vals, end_bb, incoming) ==
    [g EXCEPT !.ifs[ci].arms = Append(@, ArmRec(kind, vals, end_bb, incoming))]

\* the blocks then, el and merge of if_stmt, each moved after the one before
if_blocks(g, has_else) ==
    With(append_bb_after(g, g.builder_fn, "then", g.insert_bb), LAMBDA g1 :
    With(append_bb_after(g1, g.builder_fn, "el", g1.n), LAMBDA g2 :
    With(append_bb_after(g2, g.builder_fn, "merge", g2.n), LAMBDA g3 :
    [g3 EXCEPT !.ifs = Append(@, IfEv(g.builder_fn, g.insert_bb, g1.n, g2.n, g3.n,
                                      has_else))])))

\* the `for` of if_stmt that appends one elifcond block per elif arm
RECURSIVE elif_cond_blocks(_, _, _, _)
elif_cond_blocks(g, ci, i, n) ==
    IF i >= n THEN g
    ELSE With(append_bb(g, g.ifs[ci].fn, "elifcond" \o ToString(i)), LAMBDA g1 :
         elif_cond_blocks([g1 EXCEPT !.ifs[ci].elif_bb_vec = Append(@, g1.n)], ci, i + 1, n))

\* the phi of an if or for statement, built at the end of the merge block
build_phi(g, merge_bb, back_to) ==
    position_at_end(emit(position_at_end(g, merge_bb), "phi", ""), back_to)

\* an arm of an if statement from its statements on: the branch to the merge
\* block and the incoming edge of the phi
gen_arm(g, ci, kind, body, always) ==
    GTry(gen_stmt(g, body), LAMBDA b :
    With(emit(b.g, "br", "merge"), LAMBDA g1 :
    With(position_at_end(g1, g1.ifs[ci].merge_bb), LAMBDA g2 :
    IF always \/ Len(b.vals) > 0
    THEN GTry(GStmt(add_incoming(g2, kind, b.vals), <<>>), LAMBDA i :
         GStmt(arm_done(i.g, ci, kind, b.vals, g1.insert_bb, TRUE), b.vals))
    ELSE GStmt(arm_done(g2, ci, kind, b.vals, g1.insert_bb, FALSE), b.vals))))

\* the block an arm that fails the test branches to: the next elifcond block,
\* the else block, or the merge block
else_cond_br(c, idx) ==
    IF idx < Len(c.elif_bb_vec) THEN c.elif_bb_vec[idx + 1]
    ELSE IF c.has_else THEN c.else_bb ELSE c.merge_bb

\* the blocks of the elif arm idx: elifcond is moved after el, and a new block
\* elifblck after elifcond; the builder is at the end of elifcond
elif_blocks(g, ci, idx) ==
    With(move_bb_after(position_at_end(g, g.ifs[ci].elif_bb_vec[idx]),
                       g.ifs[ci].elif_bb_vec[idx], g.ifs[ci].else_bb), LAMBDA g1 :
    With(append_bb_after(g1, g.ifs[ci].fn, "elifblck" \o ToString(idx - 1),
                         g.ifs[ci].elif_bb_vec[idx]), LAMBDA g2 :
    [g2 EXCEPT !.ifs[ci].elif_code_bbs = Append(@, g2.n)]))

\* the loop of if_stmt over the elif arms
gen_elifs(g, elifs, idx, acc, ci) ==
    IF idx > Len(elifs) THEN GStmt(g, acc)
    ELSE IF elifs[idx].k # "ElifStmt" THEN gen_elifs(g, elifs, idx + 1, acc, ci)
    ELSE With(elif_blocks(g, ci, idx), LAMBDA g1 :
         GTry(gen_expr(g1, elifs[idx].cond_expr), LAMBDA c :
         IF c.v = NoVal
         THEN gen_elifs(gen_error(c.g, "InvalidAst", ""), elifs, idx + 1, acc, ci)
         ELSE GTry(gen_arm(position_at_end(emit(position_at_end(c.g, g1.ifs[ci].elif_bb_vec[idx]),
                                                "condbr", ""),
                                           g1.n),
                           ci, "elif", elifs[idx].body, TRUE), LAMBDA b :
              gen_elifs([position_at_end(b.g, g1.n) EXCEPT !.ifs[ci].final_elif_bb = g1.n,
                                                           !.ifs[ci].n_elif = @ + 1],
                        elifs, idx + 1, acc \o b.vals, ci))))

\* the end of if_stmt: the else block is moved after the last elifblck and
\* generated, or the builder is put at the end of the merge block
gen_else(g, ci, el_stmts, acc) ==
    IF el_stmts = NoAst
    THEN GStmt([position_at_end(g, g.ifs[ci].merge_bb) EXCEPT !.ifs[ci].done = TRUE], acc)
    ELSE GTry(gen_arm(position_at_end(move_bb_after(g, g.ifs[ci].else_bb,
                                                    g.ifs[ci].final_elif_bb),
                                      g.ifs[ci].else_bb),
                      ci, "el", el_stmts, TRUE), LAMBDA el :
         GStmt([el.g EXCEPT !.ifs[ci].done = TRUE], acc \o el.vals))

\* CodeGenerator::if_stmt
gen_if_stmt(g, st) ==
    GTry(GStmt(insert_fn(g), <<>>), LAMBDA f :
    \* the blocks then, el, merge, one elifcond per arm, and the phi
    With(if_blocks(f.g, st.el_stmts # NoAst), LAMBDA g1 :
    With(Len(g1.ifs), LAMBDA ci :
    With(build_phi(elif_cond_blocks(g1, ci, 0, Len(st.elif_exprs)),
                   g1.ifs[ci].merge_bb, f.g.insert_bb), LAMBDA g2 :
    GTry(gen_expr(g2, st.cond_expr), LAMBDA c :
    IF c.v = NoVal THEN GStmt(gen_error(c.g, "InvalidAst", ""), <<>>)
    ELSE
    GTry(gen_arm(position_at_end(emit(position_at_end(c.g, f.g.insert_bb), "condbr", ""),
                                 g1.ifs[ci].then_bb),
                 ci, "then", st.if_stmts, FALSE), LAMBDA t :
    GTry(gen_elifs(t.g, st.elif_exprs, 1, t.vals, ci), LAMBDA ei :
    gen_else(ei.g, ci, st.el_stmts, ei.vals))))))))

\* CodeGenerator::while_stmt
gen_while_stmt(g, st) ==
    GTry(GStmt(insert_fn(g), <<>>), LAMBDA f :
    With(append_bb(f.g, f.g.builder_fn, "while"), LAMBDA g1 :
    With(append_bb(g1, f.g.builder_fn, "merge"), LAMBDA g2 :
    GTry(gen_expr(position_at_end(g2, f.g.insert_bb), st.cond_expr), LAMBDA c :
    IF c.v = NoVal THEN GStmt(gen_error(c.g, "InvalidAst", ""), <<>>)
    ELSE
    GTry(gen_stmt(position_at_end(emit(c.g, "condbr", ""), g1.n), st.body), LAMBDA b :
    GTry(gen_expr(b.g, st.cond_expr), LAMBDA u :
    \* updated_cond_val.unwrap()
    IF u.v = NoVal THEN GPanic(u.g)
    ELSE GStmt(position_at_end(emit(u.g, "condbr", ""), g2.n), b.vals)))))))

\* CodeGenerator::for_stmt
\* history: a for statement that was generated: its blocks, the values of the
\* statements of its body, and the incoming edge given to its phi
ForGenEv(g, entry, for_bb, merge, stmt_vals, incoming) ==
    [fn |-> bb_of(g, merge).fn, entry_bb |-> entry, for_bb |-> for_bb, merge_bb |-> merge,
     for_end_bb |-> g.insert_bb, stmt_vals |-> stmt_vals, incoming |-> incoming]

\* stmt_vals.as_mut_ptr() with a count of 1: the first element of the vector
phi_incoming(stmt_vals, for_end_bb) ==
    IF stmt_vals = <<>> THEN <<>> ELSE <<[val |-> stmt_vals[1], from |-> for_end_bb]>>

\* for_stmt from the conditional branch on
for_end(g, entry, for_bb, merge, stmt_vals) ==
    With(emit(g, "condbr", ""), LAMBDA g1 :
    With(ForGenEv(g1, entry, for_bb, merge, stmt_vals, phi_incoming(stmt_vals, g1.insert_bb)),
         LAMBDA ev :
    GStmt([add_incoming(position_at_end(g1, merge), "for", stmt_vals)
              EXCEPT !.floops = Append(@, ev)], stmt_vals)))

gen_for_stmt(g, st) ==
    GTry(GStmt(insert_fn(g), <<>>), LAMBDA f :
    With(append_bb(f.g, f.g.builder_fn, "entry"), LAMBDA g1 :
    With(append_bb(g1, f.g.builder_fn, "for"), LAMBDA g2 :
    With(append_bb(g2, f.g.builder_fn, "merge"), LAMBDA g3 :
    GTry(gen_stmt(build_phi(g3, g3.n, g1.n), st.for_var_decl), LAMBDA d :
    GTry(gen_stmt(position_at_end(emit(d.g, "br", "for"), g2.n), st.body), LAMBDA b :
    GTry(gen_stmt(b.g, st.for_step_expr), LAMBDA s :
    GTry(gen_stmt(s.g, st.for_cond_expr), LAMBDA c :
    \* self.gen_stmt(..)[0]
    IF c.vals = <<>> THEN GPanic(c.g)
    ELSE for_end(c.g, g1.n, g2.n, g3.n, b.vals)))))))))

\* gen_stmt of an ExprStmt
gen_expr_stmt(g, e) ==
    GTry(gen_expr(g, e), LAMBDA r :
    IF r.v = NoVal THEN GStmt(gen_error(r.g, "InvalidAst", ""), <<>>)
    ELSE GStmt(r.g, <<r.v>>))

gen_stmt(g, st) ==
    CASE st.k = "BlckStmt" -> gen_block(g, st.stmts, <<>>)
      [] st.k = "ExprStmt" -> gen_expr_stmt(g, st.expr)
      [] st.k = "IfStmt" -> gen_if_stmt(g, st)
      [] st.k = "WhileStmt" -> gen_while_stmt(g, st)
      [] st.k = "ForStmt" -> gen_for_stmt(g, st)
      [] st.k = "FnDecl" ->
           fn_decl_stmt(g, st.ident_tkn, st.fn_params, st.ret_ty, st.fn_body)
      [] st.k = "VarAssignExpr" ->
           var_assign_expr(g, st.ty_rec, st.ident_tkn, st.is_global, st.value)
      [] st.k = "VarDeclExpr" -> var_decl_expr(g, st.ty_rec, st.ident_tkn, st.is_global)
      [] st.k = "ClassDecl" ->
           class_decl_stmt(g, st.ident_tkn, st.methods, st.props, st.prop_pos)
      [] OTHER -> unimplemented(g, st)

\* the loop of gen_ir over the statements of the program
RECURSIVE gen_prog(_, _)
gen_prog(g, ss) ==
    IF ss = <<>> \/ g.k # "ok" THEN g ELSE gen_prog(gen_stmt(g, Head(ss)).g, Tail(ss))

\* CodeGenerator::gen_ir
gen_ir(g, ast) == IF ast.k = "Prog" THEN gen_prog(g, ast.stmts) ELSE g

-----------------------------------------------------------------------------
(* Parser::parse and main() *)

\* ParseErr::continuable: each kind of error is either continuable or fatal;
\* the classification is not in the sources, so both are possible
Continuable(e) == BOOLEAN

\* the exit status of a process that panicked, and of one ended by a signal
PanicStatus == 101
CrashStatus == 139

\* each iteration of the loop of parse() starts outside every function body
at_top(s) == [s EXCEPT !.fns = <<>>]

DeclRec(r, before) ==
    [k |-> r.k, err |-> r.err, ast |-> r.ast, from |-> before.pos, to |-> r.s.pos,
     errs_before |-> Len(before.errors), errs_after |-> Len(r.s.errors),
     depth_before |-> Len(before.chain), depth_after |-> Len(r.s.chain),
     symtab_before |-> before.chain, symtab_after |-> r.s.chain, continuable |-> TRUE]

Init ==
    /\ toks = <<>>
    /\ pc = "start"
    /\ parser = NewParser
    /\ stmts = <<>>
    /\ decls = <<>>
    /\ parse_result = [ast |-> NoAst, error |-> <<>>]
    /\ ty_result = <<>>
    /\ gen = NewGen(0)
    /\ stages = <<>>
    /\ printed = <<>>
    /\ emitted = <<>>
    /\ ir_dumped = FALSE
    /\ exit_status = -1

\* main: no file name given, or the file cannot be opened: a message, and return
MainNoInput ==
    /\ pc = "start"
    /\ pc' = "exit"
    /\ exit_status' = 0
    /\ UNCHANGED <<toks, parser, stmts, decls, parse_result, ty_result, gen, stages,
                   printed, emitted, ir_dumped>>

\* main: the file is opened, lexer and parser are built over it
MainOpen ==
    /\ pc = "start"
    /\ \E t \in Programs : toks' = t
    /\ pc' = "parse"
    /\ stages' = Append(stages, "parse")
    /\ UNCHANGED <<parser, stmts, decls, parse_result, ty_result, gen, printed, emitted,
                   ir_dumped, exit_status>>

\* one iteration of the loop of parse(): a declaration that parses
ParseDeclOk ==
    /\ pc = "parse"
    /\ currtkn(parser).ty # "Eof"
    /\ LET r == decl(at_top(parser)) IN
        /\ r.k = "ok"
        /\ parser' = r.s
        /\ stmts' = Append(stmts, r.ast)
        /\ decls' = Append(decls, DeclRec(r, parser))
    /\ UNCHANGED <<toks, pc, parse_result, ty_result, gen, stages, printed, emitted,
                   ir_dumped, exit_status>>

\* one iteration of the loop of parse(): a declaration that fails; the error is
\* emitted, and the loop goes on or breaks as the error is continuable or not
ParseDeclErr ==
    /\ pc = "parse"
    /\ currtkn(parser).ty # "Eof"
    /\ LET r == decl(at_top(parser)) IN
        /\ r.k = "err"
        /\ parser' = r.s
        /\ emitted' = Append(emitted, r.err)
        /\ \E c \in Continuable(r.err) :
              /\ pc' = IF c THEN "parse" ELSE "parse_break"
              /\ decls' = Append(decls, [DeclRec(r, parser) EXCEPT !.continuable = c])
    /\ UNCHANGED <<toks, stmts, parse_result, ty_result, gen, stages, printed,
                   ir_dumped, exit_status>>

\* an unwrap() of None inside the parser: the process panics
ParseDeclPanic ==
    /\ pc = "parse"
    /\ currtkn(parser).ty # "Eof"
    /\ LET r == decl(at_top(parser)) IN
        /\ r.k = "panic"
        /\ parser' = r.s
        /\ decls' = Append(decls, DeclRec(r, parser))
    /\ pc' = "exit"
    /\ exit_status' = PanicStatus
    /\ UNCHANGED <<toks, stmts, parse_result, ty_result, gen, stages, printed, emitted,
                   ir_dumped>>

\* the end of parse(): the global scope is finalized and the result returned
ParseReturn ==
    /\ \/ pc = "parse" /\ currtkn(parser).ty = "Eof"
       \/ pc = "parse_break"
    /\ parser' = finalize_global_sc(parser)
    /\ parse_result' = [ast |-> Prog(stmts), error |-> parser.errors]
    /\ pc' = "parsed"
    /\ UNCHANGED <<toks, stmts, decls, ty_result, gen, stages, printed, emitted,
                   ir_dumped, exit_status>>

\* main: parse errors are emitted and main returns
MainParseErrors ==
    /\ pc = "parsed"
    /\ Len(parse_result.error) > 0
    /\ printed' = printed \o parse_result.error
    /\ pc' = "exit"
    /\ exit_status' = 0
    /\ UNCHANGED <<toks, parser, stmts, decls, parse_result, ty_result, gen, stages,
                   emitted, ir_dumped>>

TyErr(i) == ParseErr(i, "TypeErr", "")

\* main: the type checker runs over the AST; its errors are emitted and main returns
MainTyCheck ==
    /\ pc = "parsed"
    /\ Len(parse_result.error) = 0
    /\ stages' = Append(stages, "check")
    /\ \E n \in 0..MaxTyErrs :
        /\ ty_result' = [i \in 1..n |-> TyErr(i)]
        /\ IF n > 0
           THEN /\ printed' = printed \o [i \in 1..n |-> TyErr(i)]
                /\ pc' = "exit"
                /\ exit_status' = 0
           ELSE /\ pc' = "checked"
                /\ UNCHANGED <<printed, exit_status>>
    /\ UNCHANGED <<toks, parser, stmts, decls, parse_result, gen, emitted, ir_dumped>>

\* main: the code generator walks the AST and returns; its errors are emitted
\* and main returns
MainGenIr ==
    /\ pc = "checked"
    /\ stages' = Append(stages, "gen")
    /\ \E ub \in 0..MaxUb :
        /\ gen' = gen_ir(NewGen(ub), parse_result.ast)
        /\ gen'.k = "ok"
        /\ IF Len(gen'.errors) > 0
           THEN /\ printed' = printed \o gen'.errors
                /\ pc' = "exit"
                /\ exit_status' = 0
           ELSE /\ pc' = "generated"
                /\ UNCHANGED <<printed, exit_status>>
    /\ UNCHANGED <<toks, parser, stmts, decls, parse_result, ty_result, emitted, ir_dumped>>

\* an unwrap() of None, an index out of bounds or unimplemented!() inside the
\* code generator: the process panics
MainGenPanic ==
    /\ pc = "checked"
    /\ stages' = Append(stages, "gen")
    /\ \E ub \in 0..MaxUb :
        /\ gen' = gen_ir(NewGen(ub), parse_result.ast)
        /\ gen'.k = "panic"
    /\ pc' = "exit"
    /\ exit_status' = PanicStatus
    /\ UNCHANGED <<toks, parser, stmts, decls, parse_result, ty_result, printed, emitted,
                   ir_dumped>>

\* undefined behaviour inside the code generator ends the process
MainGenCrash ==
    /\ pc = "checked"
    /\ stages' = Append(stages, "gen")
    /\ \E ub \in 0..MaxUb :
        /\ gen' = gen_ir(NewGen(ub), parse_result.ast)
        /\ gen'.k = "crash"
    /\ pc' = "exit"
    /\ exit_status' = CrashStatus
    /\ UNCHANGED <<toks, parser, stmts, decls, parse_result, ty_result, printed, emitted,
                   ir_dumped>>

\* main: the module is dumped, and main returns
MainDumpIr ==
    /\ pc = "generated"
    /\ stages' = Append(stages, "dump")
    /\ ir_dumped' = TRUE
    /\ pc' = "exit"
    /\ exit_status' = 0
    /\ UNCHANGED <<toks, parser, stmts, decls, parse_result, ty_result, gen, printed,
                   emitted>>

Next ==
    \/ MainNoInput
    \/ MainOpen
    \/ ParseDeclOk
    \/ ParseDeclErr
    \/ ParseDeclPanic
    \/ ParseReturn
    \/ MainParseErrors
    \/ MainTyCheck
    \/ MainGenIr
    \/ MainGenPanic
    \/ MainGenCrash
    \/ MainDumpIr

Spec == Init /\ [][Next]_vars

-----------------------------------------------------------------------------
(* The properties *)

BuiltinTy == {"Num", "String", "Bool"}

\* the type a type token declares
DeclaredTy(tkn) ==
    IF tkn.ty = "Ident" THEN TyName("Class", tkn.name) ELSE TyName(tkn.ty, "")

\* the top-level declarations whose tokens include position at
DeclsOver(at) == {j \in DOMAIN decls : decls[j].from <= at /\ at < decls[j].to}

\* braces open in front of position p of the source
BraceDepth(p) ==
    Cardinality({i \in 1..(p - 1) : toks[i].ty = "LeftBrace"})
        - Cardinality({i \in 1..(p - 1) : toks[i].ty = "RightBrace"})

\* C1: scope balance: when parse() has returned, every init_sc of the parser
\* has been followed by exactly one finalize_sc of the scope it opened, and only
\* the global scope is on the active stack of the symbol table.
C1_ScopeBalance ==
    parser.global_final =>
        /\ Len(parser.chain) = 1
        /\ \A i \in DOMAIN parser.log :
              parser.log[i].op = "init_sc" =>
                  Cardinality({j \in DOMAIN parser.log :
                                  /\ j > i
                                  /\ parser.log[j].op = "finalize_sc"
                                  /\ parser.log[j].uid = parser.log[i].uid}) = 1

\* C2: every diagnostic of the parser is both recorded and returned: a
\* declaration that returns Err returns a diagnostic that is in the errors
\* vector, and a declaration that returns Ok has recorded no diagnostic.
C2_RecordedAndReturned ==
    \A i \in DOMAIN decls :
        /\ decls[i].k = "err" => decls[i].err \in Range(parser.errors)
        /\ decls[i].k = "ok" => decls[i].errs_after = decls[i].errs_before

\* the errors of the earliest stage whose error list is not empty
StageErrors ==
    IF parse_result.error # <<>> THEN Range(parse_result.error)
    ELSE IF ty_result # <<>> THEN Range(ty_result)
    ELSE Range(gen.errors)

\* C3: the stages run in the order parse, type check, code generation, dump; a
\* stage is never run after an earlier one reported errors; and when main has
\* returned, the errors printed are exactly those of the earliest failing stage.
C3_StagesStopAtFirstError ==
    /\ \E n \in 0..4 : stages = SubSeq(<<"parse", "check", "gen", "dump">>, 1, n)
    /\ "check" \in Range(stages) => parse_result.error = <<>>
    /\ "gen" \in Range(stages) => parse_result.error = <<>> /\ ty_result = <<>>
    /\ "dump" \in Range(stages) =>
          parse_result.error = <<>> /\ ty_result = <<>> /\ gen.errors = <<>>
    /\ (pc = "exit" /\ exit_status = 0) =>
          Range(emitted) \cup Range(printed) = StageErrors

\* C4: a process in which parsing, type checking or code generation reported an
\* error ends with a status other than 0, and a process that opened its source
\* file ends with status 0 only when the IR was dumped.
C4_ExitStatus ==
    pc = "exit" =>
        /\ (parse_result.error # <<>> \/ ty_result # <<>> \/ gen.errors # <<>>) =>
              exit_status # 0
        /\ ("parse" \in Range(stages) /\ exit_status = 0) => ir_dumped

\* C5: immutability: an assignment to a name whose nearest binding is `imm`
\* records InvalidImmAssign, the declaration it is part of returns that error
\* and no node, and the code generator never runs, so it generates no store to
\* the name; an assignment to a name that is not `imm` records no such error.
C5_Immutability ==
    \A i \in DOMAIN parser.asg :
        LET a == parser.asg[i]
            e == ParseErr(a.end, "InvalidImmAssign", a.name)
        IN /\ a.imm =>
                /\ e \in Range(parser.errors)
                /\ \A j \in DeclsOver(a.at) :
                      decls[j].k = "err" /\ decls[j].err = e /\ decls[j].ast = NoAst
                /\ "gen" \notin Range(stages)
                /\ \A g \in Range(gen.log) : g.op # "assign"
           /\ ~a.imm => e \notin Range(parser.errors)

\* an assignment to an `imm` name was parsed, and main has returned
C5_Witness ==
    /\ pc = "exit"
    /\ \E i \in DOMAIN parser.asg : parser.asg[i].imm /\ DeclsOver(parser.asg[i].at) # {}

\* `let imm NAME ~ TYPE ;` with a built-in TYPE starts at position p
ImmNoInit(p) ==
    /\ p + 5 <= Len(toks)
    /\ toks[p].ty = "Let" /\ toks[p + 1].ty = "Imm" /\ toks[p + 2].ty = "Ident"
    /\ toks[p + 3].ty = "Tilde" /\ toks[p + 4].ty \in BuiltinTy
    /\ toks[p + 5].ty = "Semicolon"

\* C6: a variable declaration `let imm NAME ~ TYPE ;` returns the error ImmDecl,
\* which is in the errors vector and so in ParserResult.error; it stores no
\* symbol for NAME and yields no node, nor does the declaration it is part of.
C6_ImmDecl ==
    \A i \in DOMAIN parser.vds :
        LET v == parser.vds[i] IN
        ImmNoInit(v.at) =>
            /\ v.k = "err" /\ v.ast = NoAst
            /\ v.err = ParseErr(v.at + 5, "ImmDecl", "Semicolon")
            /\ v.err \in Range(parser.errors)
            /\ parser.global_final => v.err \in Range(parse_result.error)
            /\ \A j \in (v.log_from + 1)..v.log_to :
                  ~(parser.log[j].op = "store" /\ parser.log[j].name = toks[v.at + 2].name)
            /\ \A j \in DeclsOver(v.at) : decls[j].k = "err" /\ decls[j].ast = NoAst

\* such a declaration was parsed inside a block, and parse() has returned
C6_Witness ==
    /\ parser.global_final
    /\ \E i \in DOMAIN parser.vds : ImmNoInit(parser.vds[i].at) /\ ~parser.vds[i].global

\* C7: the node of a well-formed variable declaration is VarAssign with an
\* initializer and VarDecl without one (for a built-in type); it carries the
\* declared type, the declared identifier, the imm flag as written and the
\* global flag of the scope stack at the declaration; the value of a VarAssign
\* with a literal initializer is that literal.
C7_VarDeclNode ==
    \A i \in DOMAIN parser.vds :
        LET v == parser.vds[i]
            imm == toks[v.at + 1].ty = "Imm"
            id == v.at + (IF imm THEN 2 ELSE 1)
            ty == id + 2
        IN v.k = "ok" =>
            /\ toks[ty + 1].ty = "Eq" => v.ast.k = "VarAssignExpr"
            /\ (toks[ty + 1].ty = "Semicolon" /\ toks[ty].ty \in BuiltinTy) =>
                  v.ast.k = "VarDeclExpr"
            /\ v.ast.ty_rec.ty = DeclaredTy(toks[ty])
            /\ v.ast.ident_tkn = WithPos(toks[id], id)
            /\ v.ast.is_imm = imm
            /\ v.ast.is_global = v.global
            /\ (/\ toks[ty + 1].ty = "Eq"
                /\ toks[ty + 2].ty \in {"Val", "Str"}
                /\ toks[ty + 3].ty = "Semicolon") =>
                  v.ast.value =
                      PrimaryExpr([ty |-> TyName(IF toks[ty + 2].ty = "Val" THEN "Num"
                                                 ELSE "String", ""),
                                   tkn |-> WithPos(toks[ty + 2], ty + 2)])

\* a declaration without initializer inside a scope and an `imm` declaration
\* with initializer have been parsed into nodes
C7_Witness ==
    /\ \E i \in DOMAIN parser.vds :
          /\ parser.vds[i].k = "ok" /\ parser.vds[i].ast.k = "VarDeclExpr"
          /\ ~parser.vds[i].global
    /\ \E i \in DOMAIN parser.vds :
          /\ parser.vds[i].k = "ok" /\ parser.vds[i].ast.k = "VarAssignExpr"
          /\ parser.vds[i].ast.is_imm

\* the source file starts with a function declaration `fn NAME ( ... )`
StartsWithFnDecl ==
    /\ Len(toks) >= 4
    /\ toks[1].ty = "Fn" /\ toks[2].ty = "Ident" /\ toks[3].ty = "LeftParen"
    /\ \E i \in DOMAIN toks : toks[i].ty = "RightParen"

FirstRightParen ==
    CHOOSE i \in DOMAIN toks :
        toks[i].ty = "RightParen" /\ \A j \in 1..(i - 1) : toks[j].ty # "RightParen"

\* the number of parameters `NAME ~ TYPE` that declaration has
DeclaredParamCnt == Cardinality({i \in 4..FirstRightParen : toks[i].ty = "Tilde"})

\* C8: a function declaration with at most 64 parameters is not rejected for
\* the number of its parameters, and one with more than 64 parameters returns
\* the error FnParamCntExceeded(64).
C8_ParamLimit ==
    (StartsWithFnDecl /\ Len(decls) >= 1) =>
        /\ DeclaredParamCnt <= FN_PARAM_MAX_LEN =>
              ~(decls[1].k = "err" /\ decls[1].err.ty = "FnParamCntExceeded")
        /\ DeclaredParamCnt > FN_PARAM_MAX_LEN =>
              /\ decls[1].k = "err"
              /\ decls[1].err.ty = "FnParamCntExceeded"
              /\ decls[1].err.arg = ToString(FN_PARAM_MAX_LEN)

\* C9: recursion admissibility: while the body of a function is parsed, its name
\* (unless stored again inside the body) resolves to an Fn symbol with the
\* function's parameters, without error, and a call is checked against that
\* many parameters; while the body is generated, the name resolves in the value
\* table to the function's handle, and no InvalidFn is recorded for it.
C9_RecursionAdmissible ==
    /\ \A i \in DOMAIN parser.lookups :
          LET e == parser.lookups[i] IN
          \A f \in Range(e.fns) :
              (f.name = e.name /\ ~f.rebound) =>
                  e.sym_ty = "Fn" /\ e.params = SomeParams(f.params) /\ e.err = ""
    /\ \A i \in DOMAIN parser.calls :
          LET c == parser.calls[i] IN
          \A f \in Range(c.fns) :
              (f.name = c.name /\ ~f.rebound) => c.exp = Len(f.params)
    /\ \A i \in DOMAIN gen.log :
          LET e == gen.log[i] IN
          e.op = "callee" =>
              \A f \in Range(e.fns) :
                  (f.name = e.name /\ ~f.rebound) =>
                      e.val = f.val /\ GenErr("InvalidFn", e.name) \notin Range(gen.errors)

\* C10: symbol uniqueness: the parser never stores the same name twice in one
\* scope without a diagnostic recorded between the two stores.
C10_SymbolUniqueness ==
    \A i, j \in DOMAIN parser.log :
        (/\ i < j
         /\ parser.log[i].op = "store" /\ parser.log[j].op = "store"
         /\ parser.log[i].name = parser.log[j].name
         /\ parser.log[i].uid = parser.log[j].uid) =>
            \E k \in (i + 1)..(j - 1) : parser.log[k].op = "error"


\* the `let` tokens of the properties of the class declared by decls[j]: those
\* directly inside the braces of the class
PropLets(j) ==
    {p \in decls[j].from..(decls[j].to - 1) :
        toks[p].ty = "Let" /\ BraceDepth(p) = BraceDepth(decls[j].from) + 1}

\* the 0-based position of the `let` at p among the properties of its class
PropRank(j, p) == Cardinality({q \in PropLets(j) : q < p})

\* the LLVM type the type token of a declaration is lowered to
LoweredTy(tkn) == llvm_ty_from_ty_rec([ty |-> DeclaredTy(tkn)], FALSE)

\* the structs generated for the class declared by decls[j]
StructsOf(j) ==
    {i \in DOMAIN gen.structs : gen.structs[i].at = decls[j].ast.ident_tkn.at}

\* C11: for a class declaration that parses, prop_index maps each property name
\* to the 0-based source position of its `let` among the properties, and the
\* i-th field of the generated struct has the lowered type of the i-th `let`.
C11_ClassLayout ==
    \A j \in DOMAIN decls :
        (decls[j].k = "ok" /\ decls[j].ast.k = "ClassDecl") =>
            /\ \A p \in PropLets(j) :
                  /\ toks[p + 1].name \in DOMAIN decls[j].ast.prop_pos
                  /\ decls[j].ast.prop_pos[toks[p + 1].name] = PropRank(j, p)
            /\ \A i \in StructsOf(j) :
                  /\ Len(gen.structs[i].tys) = Cardinality(PropLets(j))
                  /\ \A p \in PropLets(j) :
                        gen.structs[i].tys[PropRank(j, p) + 1] = LoweredTy(toks[p + 3])

\* C12: identifier use in primary_expr: an undeclared identifier returns
\* UndeclaredSym; a declared one without a value is accepted exactly when its
\* symbol is a Param or an Fn or the token after it is `=`, and returns
\* UnassignedVar otherwise; a declared one with a value is accepted; in each
\* case the identifier, and no other token, is consumed.
C12_IdentUse ==
    \A i \in DOMAIN parser.prims :
        LET e == parser.prims[i]
            next_eq == e.at + 1 <= Len(toks) /\ toks[e.at + 1].ty = "Eq"
        IN /\ ~e.declared => e.k = "err" /\ e.err = ParseErr(e.at, "UndeclaredSym", e.name)
           /\ (e.declared /\ ~e.has_val) =>
                 /\ e.k = "ok" <=> (e.sym_ty \in {"Param", "Fn"} \/ next_eq)
                 /\ e.k # "ok" =>
                       e.k = "err" /\ e.err = ParseErr(e.at, "UnassignedVar", e.name)
           /\ (e.declared /\ e.has_val) => e.k = "ok"
           /\ e.end = e.at + 1

\* a variable without a value was used before `=` and was used elsewhere, and
\* the name of a function was used inside its own body
C12_Witness ==
    /\ \E i \in DOMAIN parser.prims :
          LET e == parser.prims[i] IN
          e.declared /\ ~e.has_val /\ e.sym_ty = "Var" /\ e.k = "ok"
    /\ \E i \in DOMAIN parser.prims :
          LET e == parser.prims[i] IN
          e.declared /\ ~e.has_val /\ e.sym_ty = "Var" /\ e.k = "err"

-----------------------------------------------------------------------------
\* C15: a `for` statement with the init, the condition or the step clause
\* written as the bare `;` is parsed without aborting: for_stmt returns a For
\* node or a parse error, and never panics on the missing clause.
C15_ForBareClause ==
    \A i \in DOMAIN parser.fors :
        LET e == parser.fors[i] IN
        e.bare # {} =>
            /\ e.k \in {"ok", "err"}
            /\ e.k = "ok" => e.ast.k = "ForStmt"

-----------------------------------------------------------------------------
\* C16: an if statement is the `if` arm, then `elif` arms, then at most one
\* `else` block, which comes last: no `elif` and no second `else` is consumed
\* into the same if statement after an `else` block, so that no parsed `else`
\* block is dropped.
C16_ElseComesLast ==
    \A i \in DOMAIN parser.arms : ~parser.arms[i].had_else

-----------------------------------------------------------------------------
\* a declaration boundary: the start of the source, or the token after a `;` or
\* a `}` that closes a top-level declaration
Boundary(p) ==
    \/ p = 1
    \/ /\ p - 1 \in DOMAIN toks
       /\ toks[p - 1].ty \in {"Semicolon", "RightBrace"}
       /\ BraceDepth(p) = 0

\* a well-formed top-level declaration `let NAME ~ num = 1 ;` at position p
WellFormedLet(p) ==
    /\ Boundary(p)
    /\ p + 6 \in DOMAIN toks
    /\ toks[p].ty = "Let" /\ toks[p + 1].ty = "Ident" /\ toks[p + 2].ty = "Tilde"
    /\ toks[p + 3].ty = "Num" /\ toks[p + 4].ty = "Eq" /\ toks[p + 5].ty = "Val"
    /\ toks[p + 6].ty = "Semicolon"

\* the declarations that parsed, in the order of the source
ParsedDecls == SelectSeq(decls, LAMBDA d : d.k = "ok")

\* after a continuable error the next declaration starts at a boundary
ResumesAtBoundary ==
    \A j \in DOMAIN decls :
        (j > 1 /\ decls[j - 1].k = "err") => Boundary(decls[j].from)

\* a well-formed declaration after a failed one is parsed, once parse() is over
LaterDeclsParsed ==
    parser.global_final =>
        \A p \in DOMAIN toks :
            (WellFormedLet(p) /\ \A j \in DOMAIN decls : decls[j].continuable) =>
                \E j \in DOMAIN decls :
                    /\ decls[j].from = p /\ decls[j].to = p + 7
                    /\ decls[j].k = "ok" /\ decls[j].ast.k = "VarAssignExpr"

\* no token is parsed after an error that is not continuable
StopsAtFatal ==
    \A j \in DOMAIN decls :
        ~decls[j].continuable => j = Len(decls) /\ parser.pos = decls[j].to

FinalizedOnce ==
    /\ pc = "parsed" => parser.global_final
    /\ parser.global_final =>
          Cardinality({i \in DOMAIN parser.log : parser.log[i].op = "finalize_global_sc"}) = 1

ReturnsParsedDecls ==
    parser.global_final =>
        parse_result.ast = Prog([i \in DOMAIN ParsedDecls |-> ParsedDecls[i].ast])

\* C17: error recovery in parse(): after a continuable error parsing resumes at
\* the next declaration boundary and every later well-formed top-level
\* declaration is in the AST; after an error that is not continuable no token is
\* parsed; finalize_global is called exactly once, and the AST returned holds
\* exactly the declarations that parsed, in source order.
C17_ErrorRecovery ==
    /\ ResumesAtBoundary
    /\ LaterDeclsParsed
    /\ StopsAtFatal
    /\ FinalizedOnce
    /\ ReturnsParsedDecls

-----------------------------------------------------------------------------
\* the binding of a name in the scopes open around a top-level declaration
EnclosingBefore(j, name) == lookup(decls[j].symtab_before, decls[j].depth_before, name)
EnclosingAfter(j, name) == lookup(decls[j].symtab_after, decls[j].depth_after, name)

\* C18: the parameters of a function are symbols of the scope opened for the
\* body, not of the scope around the declaration: after fn_decl has returned, a
\* parameter name resolves in the enclosing scope only if it was bound there
\* before, and then to the binding it had before.
C18_ParamsInBodyScope ==
    \A j \in DOMAIN decls :
        (decls[j].k = "ok" /\ decls[j].ast.k = "FnDecl") =>
            \A i \in DOMAIN decls[j].ast.fn_params :
                LET name == get_name(decls[j].ast.fn_params[i].tkn) IN
                EnclosingAfter(j, name) = EnclosingBefore(j, name)

-----------------------------------------------------------------------------
\* C13: the phi in the merge block of a generated if statement has one incoming
\* edge for each arm (then, each elif body, else) that contributed a value, and
\* none for an arm that produced no value.
C13_PhiConsistency ==
    \A ci \in DOMAIN gen.ifs :
        LET arms == gen.ifs[ci].arms IN
        /\ Cardinality({a \in DOMAIN arms : arms[a].incoming})
             = Cardinality({a \in DOMAIN arms : arms[a].n_vals > 0})
        /\ \A a \in DOMAIN arms : arms[a].n_vals = 0 => ~arms[a].incoming

-----------------------------------------------------------------------------
\* the blocks of an if statement in the order of its arms
ChainBlocks(c) ==
    <<c.then_bb>>
        \o [i \in 1..(2 * Len(c.elif_bb_vec)) |->
               IF i % 2 = 1 THEN c.elif_bb_vec[(i + 1) \div 2] ELSE c.elif_code_bbs[i \div 2]]
        \o <<c.else_bb, c.merge_bb>>

\* the blocks of an if statement in the order of the layout
ChainLayout(c) ==
    LET own == {ChainBlocks(c)[i] : i \in DOMAIN ChainBlocks(c)}
        laid == SelectSeq(gen.bbs, LAMBDA b : b.id \in own)
    IN  [i \in DOMAIN laid |-> laid[i].id]

\* an if statement with an else block, generated to its end with all its arms
ChainWithElse(c) ==
    c.done /\ c.has_else /\ Len(c.elif_code_bbs) = Len(c.elif_bb_vec)

\* C19: the blocks of a generated if statement with n elif arms and an else
\* block are laid out as then, elifcond0, elifblck0, ..., elifcond(n-1),
\* elifblck(n-1), el, merge, for every n.
C19_IfChainBlockOrder ==
    \A ci \in DOMAIN gen.ifs :
        ChainWithElse(gen.ifs[ci]) => ChainLayout(gen.ifs[ci]) = ChainBlocks(gen.ifs[ci])

-----------------------------------------------------------------------------
\* the entry block of a function, and the instructions of a block in order
EntryOf(fn) == entry_bb(gen, fn)
InstrsOf(bb) == SelectSeq(gen.instrs, LAMBDA i : i.bb = bb)

\* every alloca that build_entry_bb_alloca built while a function was being
\* generated is in the entry block of that function
AllocaInOwnEntry ==
    \A i \in DOMAIN gen.instrs :
        LET a == gen.instrs[i] IN
        (a.entry /\ a.owner # NoVal) => a.bb = EntryOf(a.owner)

\* in the entry block of every function the allocas of build_entry_bb_alloca
\* precede every instruction that is not an alloca
AllocasLead ==
    \A b \in DOMAIN gen.bbs :
        LET is == InstrsOf(gen.bbs[b].id) IN
        \A i, j \in DOMAIN is :
            (is[i].entry /\ is[j].kind # "alloca") => i < j

\* C14: after a function is generated, every alloca emitted through
\* build_entry_bb_alloca for it lies in the entry block of the function and
\* precedes every non-alloca instruction of that block.
C14_AllocaPlacement == AllocaInOwnEntry /\ AllocasLead

-----------------------------------------------------------------------------
\* a parameter that is lowered to a pointer: a string, a class instance, `self`
PointerParam(ty_rec) == is_pointer_ty(ty_rec)

\* the parameter handle of a function
IsParamHandle(v) == v.kind = "param"

\* a slot of the entry block of fn into which the incoming value was stored
IsEntrySlot(v, fn, name) ==
    /\ v.kind = "alloca"
    /\ \E i \in DOMAIN gen.instrs :
          /\ gen.instrs[i].id = v.id /\ gen.instrs[i].entry
          /\ gen.instrs[i].bb = EntryOf(fn)
    /\ \E i \in DOMAIN gen.instrs :
          /\ gen.instrs[i].kind = "store" /\ gen.instrs[i].name = name
          /\ gen.instrs[i].bb = EntryOf(fn)

\* C20: while the body of a function is generated every parameter name resolves
\* in the value table: a parameter that is not a pointer to its alloca in the
\* entry block, a pointer parameter (string, class instance, self) to the
\* parameter handle.
C20_ParamsResolve ==
    \A b \in DOMAIN gen.bodies :
        LET body == gen.bodies[b] IN
        \A p \in DOMAIN body.params :
            IF PointerParam(body.params[p])
            THEN IsParamHandle(body.vals[p])
            ELSE IsEntrySlot(body.vals[p], body.fn, get_name(body.params[p].tkn))

-----------------------------------------------------------------------------
\* the events of the log of the generator that a call of fn_decl_stmt wrote
FnLog(e, op) ==
    {i \in (e.log_from + 1)..e.log_to : gen.log[i].op = op}

\* the calls of fn_decl_stmt made inside the call e, e itself included
FnCallsWithin(e) ==
    {i \in DOMAIN gen.fdecls :
        gen.fdecls[i].log_from >= e.log_from /\ gen.fdecls[i].log_to <= e.log_to}

\* the value table after the call e is the one before it with the name of the
\* function bound to its handle in the innermost scope
OnlyHandleAdded(e) ==
    /\ Len(e.after) = Len(e.before)
    /\ \A lvl \in DOMAIN e.before :
          IF lvl = Len(e.before)
          THEN /\ DOMAIN e.after[lvl] = DOMAIN e.before[lvl] \cup {e.name}
               /\ e.after[lvl][e.name] = e.fn
               /\ \A n \in DOMAIN e.before[lvl] : n # e.name => e.after[lvl][n] = e.before[lvl][n]
          ELSE e.after[lvl] = e.before[lvl]

\* C21: fn_decl_stmt is scope-neutral on the value table: it opens one scope
\* and closes one, the depth after it is the depth before it, the name of the
\* function is bound to its handle in the enclosing scope, no parameter or
\* local stays visible, and every other enclosing binding is unchanged.
C21_FnDeclScopeNeutral ==
    \A i \in DOMAIN gen.fdecls :
        LET e == gen.fdecls[i] IN
        /\ Cardinality(FnLog(e, "init_sc")) = Cardinality(FnCallsWithin(e))
        /\ Cardinality(FnLog(e, "close_sc")) = Cardinality(FnCallsWithin(e))
        /\ OnlyHandleAdded(e)

\* a function with a parameter and a local was generated while its parameter
\* name was bound in the scope around it
C21_Witness ==
    \E i \in DOMAIN gen.fdecls :
        LET e == gen.fdecls[i] IN
        /\ Len(e.params) > 0
        /\ get_name(e.params[1].tkn) \in DOMAIN e.before[Len(e.before)]
        /\ \E k \in FnLog(e, "store") : gen.log[k].name = get_name(e.params[1].tkn)

-----------------------------------------------------------------------------
\* C22: the value table mirrors the scoping of the parser: a use of a name is
\* resolved by the generator to the value of the declaration that retrieve
\* resolved it to in the parser, so that after a nested block a name resolves
\* again to the binding that was visible before the block.
C22_ValTabMirrorsScopes ==
    \A r \in DOMAIN gen.refs : \A e \in DOMAIN parser.prims : \A d \in DOMAIN gen.slots :
        (/\ parser.prims[e].at = gen.refs[r].at
         /\ parser.prims[e].k = "ok"
         /\ gen.slots[d].at = parser.prims[e].decl_at)
            => gen.refs[r].val = gen.slots[d].val

-----------------------------------------------------------------------------
\* the instructions of block bb, in the order of the block
BlockInstrs(bb) == SelectSeq(gen.instrs, LAMBDA i : i.bb = bb /\ ~i.entry)

\* the last instruction of block bb is of kind `kind`
EndsWith(bb, kind) ==
    LET is == BlockInstrs(bb) IN is # <<>> /\ is[Len(is)].kind = kind

\* the blocks of a for statement are generated in the order the code gives
\* them: `entry` ends with the branch to `for`, and the block the loop ends in
\* ends with the conditional branch, which follows the body, step and condition
ForEmissionOrder ==
    \A f \in DOMAIN gen.floops :
        LET ev == gen.floops[f] IN
        /\ EndsWith(ev.entry_bb, "br")
        /\ EndsWith(ev.for_end_bb, "condbr")
        /\ BlockInstrs(ev.merge_bb)[1].kind = "phi"

\* the phi of a for statement has one incoming edge, from the block that ends
\* the loop
ForPhiOneEdge ==
    \A f \in DOMAIN gen.floops :
        LET ev == gen.floops[f] IN
        ev.stmt_vals # <<>> =>
            /\ Len(ev.incoming) = 1
            /\ ev.incoming[1].from = ev.for_end_bb

\* C23: a for loop is emitted as the declaration of the loop variable and a
\* branch in `entry`, then body, step, condition and conditional branch, and
\* the phi in `merge` receives exactly one incoming edge, from the block that
\* ends the loop, whose value is the value of the last value-producing
\* statement of the body.
C23_ForEmission ==
    /\ ForEmissionOrder
    /\ ForPhiOneEdge
    /\ \A f \in DOMAIN gen.floops :
           LET ev == gen.floops[f] IN
           ev.stmt_vals # <<>> =>
               ev.incoming[1].val = ev.stmt_vals[Len(ev.stmt_vals)]

-----------------------------------------------------------------------------
\* the errors of kind ty a method call recorded at the name of the method
CallErrs(ev, ty) == {i \in DOMAIN ev.errs : ev.errs[i].ty = ty /\ ev.errs[i].at = ev.at}

\* a method call reports UndeclaredSym exactly when the class of the receiver
\* has no method of that name
UndeclaredIffNoMethod ==
    \A c \in DOMAIN parser.mcalls :
        LET ev == parser.mcalls[c] IN
        ev.k # "panic" => (CallErrs(ev, "UndeclaredSym") # {} <=> ~ev.method.some)

\* C24: the arity a method call `recv.m(args)` is checked against is that of
\* the method m of the class of the receiver, whatever other symbol m is
\* visible: WrongFnParamCnt is reported exactly when the number of arguments
\* differs from the number of parameters of the method, and UndeclaredSym
\* exactly when the class has no method m.
C24_MethodArity ==
    /\ UndeclaredIffNoMethod
    /\ \A c \in DOMAIN parser.mcalls :
           LET ev == parser.mcalls[c] IN
           (ev.k = "ok" /\ ev.method.some) =>
               (CallErrs(ev, "WrongFnParamCnt") # {} <=> ev.got # Len(ev.method.v))

-----------------------------------------------------------------------------
\* a call of decl() in the loop of parse() returned an error
SomeDeclFailed == \E d \in DOMAIN decls : decls[d].k = "err"

\* C25: when a call of decl() in parse() returned an error, a TknMismatch of
\* expect included, the driver runs neither the type checker nor the code
\* generator and no IR is dumped.
C25_ParseErrorStopsDriver ==
    SomeDeclFailed =>
        \A i \in DOMAIN stages : stages[i] \notin {"check", "gen", "dump"}

-----------------------------------------------------------------------------
\* the uses of a name, as a primary expression, that follow the accepted
\* assignment a to the same declaration
ReadsAfter(a) ==
    {e \in DOMAIN parser.prims :
        /\ parser.prims[e].at >= a.end
        /\ parser.prims[e].declared
        /\ parser.prims[e].decl_at = a.decl_at}

\* C26: an assignment `x = e;` to a variable x that was declared without an
\* initializer marks x as assigned: a later read of x is accepted by
\* primary_expr and no UnassignedVar is reported for it.
C26_AssignmentInitializes ==
    \A i \in DOMAIN parser.asg :
        ~parser.asg[i].imm =>
            \A e \in ReadsAfter(parser.asg[i]) :
                ~(parser.prims[e].k = "err" /\ parser.prims[e].err.ty = "UnassignedVar")

-----------------------------------------------------------------------------
\* the for statements that were parsed with a declaration in the first clause
ForsWithDecl ==
    {f \in DOMAIN parser.fors :
        /\ parser.fors[f].k = "ok"
        /\ parser.fors[f].ast.for_var_decl.k \in {"VarAssignExpr", "VarDeclExpr"}}

\* the name token of the loop variable of for statement f
LoopVar(f) == parser.fors[f].ast.for_var_decl.ident_tkn

\* the loop variable resolves in the condition, the step and the body
LoopVarVisibleInside ==
    \A f \in ForsWithDecl : \A e \in DOMAIN parser.prims :
        (/\ parser.prims[e].at > LoopVar(f).at
         /\ parser.prims[e].at < parser.fors[f].end
         /\ parser.prims[e].name = LoopVar(f).name)
            => parser.prims[e].declared

\* after the for statement no name resolves to the loop variable
LoopVarGoneAfter ==
    \A f \in ForsWithDecl : \A e \in DOMAIN parser.prims :
        (parser.prims[e].at >= parser.fors[f].end /\ parser.prims[e].declared)
            => parser.prims[e].decl_at # LoopVar(f).at

\* the loop variable is not recorded as a global
LoopVarNotGlobal ==
    \A f \in ForsWithDecl : ~parser.fors[f].ast.for_var_decl.is_global

\* C27: a variable declared in the first clause of a `for` is scoped to the
\* loop: it resolves in the condition, the step and the body; after the loop
\* its name resolves no longer to it in the enclosing scope; and at the top
\* level it is not recorded as a global.
C27_LoopVarScopedToLoop ==
    /\ LoopVarVisibleInside
    /\ LoopVarGoneAfter
    /\ LoopVarNotGlobal

-----------------------------------------------------------------------------
\* the calls of decl() in the loop of parse() that returned
ReturnedDecls == {d \in DOMAIN decls : decls[d].k \in {"ok", "err"}}

\* C28: parse() terminates: every call of decl() in its loop, made while the
\* current token is not Eof, consumes at least one token, whether it returns
\* Ok or Err; the loop therefore runs at most once for each token of the file.
C28_DeclConsumes ==
    /\ \A d \in ReturnedDecls : decls[d].from <= Len(toks) /\ decls[d].to > decls[d].from
    /\ Len(decls) <= Len(toks)

\* parse() has returned after a declaration that failed in an expect, one that
\* failed having consumed a single token, and one that was parsed
C28_Witness ==
    /\ pc = "parsed"
    /\ \E d \in ReturnedDecls : decls[d].k = "err" /\ decls[d].err.ty = "TknMismatch"
    /\ \E d \in ReturnedDecls : decls[d].k = "err" /\ decls[d].to = decls[d].from + 1
    /\ \E d \in ReturnedDecls : decls[d].k = "ok"

-----------------------------------------------------------------------------
\* C29: every `return` accepted inside a function body is emitted as a `ret`,
\* wherever it is nested (an arm of an if, the body of a while or a for, a
\* nested block); it never reaches the abort of gen_stmt for statements that
\* are not implemented.
C29_NestedReturnEmitted ==
    \A r \in DOMAIN gen.rets : gen.rets[r].in_fn => gen.rets[r].built

-----------------------------------------------------------------------------
\* the class context while the body of a method is generated: the class, its
\* map of properties, and the handle of the first parameter of the method
MethodContext ==
    \A b \in DOMAIN gen.bodies :
        LET ev == gen.bodies[b] IN
        (ev.method /\ ev.cls_open # <<>>) =>
            /\ ev.cls.curr_cls = ev.cls_open[Len(ev.cls_open)].name
            /\ ev.cls.curr_props = ev.cls_open[Len(ev.cls_open)].prop_pos
            /\ ev.cls.curr_self # NoVal
            /\ ev.self_idx = 1

\* the class context while the body of a function is generated outside every
\* class
NoContextInFunctions ==
    \A b \in DOMAIN gen.bodies :
        gen.bodies[b].cls_open = <<>> => gen.bodies[b].cls = NoClsCtx

\* the class context once the program has been generated
NoContextAtEnd == (gen.k = "ok" /\ gen.cls_open = <<>>) => gen.cls = NoClsCtx

\* C30: while the body of a method of class C is generated the current class
\* is C, the property map is that of C, and the self slot holds the handle of
\* the synthetic first parameter of the method, also when the method declares
\* a parameter `self` of its own; whenever no class is being generated (before
\* the first class, after each class declaration, during top-level functions,
\* those with a parameter named `self` included) the current class is empty,
\* the property map is empty and the self slot is unset.
C30_ClassContext ==
    /\ MethodContext
    /\ NoContextInFunctions
    /\ NoContextAtEnd
=============================================================================
